---- MODULE Spec2Model ----
(***************************************************************************)
(* State-machine model of sakulink: the Lavalink node connection           *)
(* lifecycle (Node), the player event router (Node.handleEvent/trackEnd),  *)
(* the queue and the node failover protocol (Player.moveNode).             *)
(***************************************************************************)
EXTENDS Integers, Sequences, FiniteSets, TLC

\* ---------------------------------------------------------------- bounds
MaxCloses == 2        \* socket close events delivered per behaviour
MaxConnectCalls == 1  \* user calls of Node.connect() per behaviour
MaxDestroyCalls == 1  \* user calls of Node.destroy()/Manager.destroyNode()
MaxSocketLosses == 1  \* socket close events per behaviour of the playback specification
MaxMoveCalls == 1     \* user calls of Player.moveNode() per behaviour
MaxTrackEnds == 1     \* TrackEndEvent frames delivered per behaviour
MaxReadyFrames == 1   \* ready frames delivered per behaviour
MaxPosition == 1      \* playback positions are 0..MaxPosition
MaxQueueLen == 2      \* pending tracks of the initial queues of the queue specification
MaxQueueCalls == 1    \* user calls of Queue.add()/Queue.remove() per behaviour
MaxStatsFrames == 3   \* stats frames delivered per behaviour
MaxCreateCalls == 1   \* user calls of Manager.create() per behaviour
MaxPlayCalls == 2     \* user calls of Player.play() per behaviour
MaxRepeatCalls == 2   \* user calls of the repeat-mode setters per behaviour
MaxShuffleTicks == 1  \* dynamic-repeat timer ticks per behaviour
MaxMixLen == 2        \* tracks in a mix playlist
RandomSteps == 3      \* distinct values of a random draw

\* ------------------------------------------------------------- universes
NodeOrder == <<"n1", "n2">>          \* insertion order of manager.nodes
NodeIds == {NodeOrder[i] : i \in 1..Len(NodeOrder)}
SelectorOrder == <<"n1", "n2", "n3">>   \* insertion order of manager.nodes with a third node
SelectorIds == {SelectorOrder[i] : i \in 1..Len(SelectorOrder)}
PlayingCounts == {1, 3, 5}            \* playingPlayers values of stats frames
Loads == {0, 1}                       \* cpu load values of stats frames
GuildOrder == <<"g1", "g2">>         \* insertion order of manager.players
Guilds == {GuildOrder[i] : i \in 1..Len(GuildOrder)}
PlayingGuilds == {"g1"}              \* guilds that have a player from the start
Tracks == {"A", "B"}
Null == "null"                       \* null / undefined
Infinity == 1000                     \* retryAmount default (Infinity)
RetryAmounts == {1, 2, Infinity}
CalledNodes == {"n1"}                \* the node whose socket fails and whose methods the user calls
CloseCodes == {1000, 1006}
CloseReasons == {"destroy", "lost"}
EndReasons == {"finished", "loadFailed", "stopped", "replaced", "cleanup"}
Positions == 0..MaxPosition

VARIABLES
    options,    \* manager.options: autoMove, autoPlay, autoResume
    nodes,      \* keys of manager.nodes
    players,    \* keys of manager.players
    node,       \* per Node object: socket, reconnect bookkeeping, options
    player,     \* per Player object: fields and queue
    db,         \* manager.db: "players.<guild>" snapshots and "sessionId.<node>"
    moves,      \* in-flight invocations of Player.moveNode
    resumes,    \* in-flight handlers of a ready frame (Node.message)
    emitted,    \* events emitted by the last handler that ran
    lastOp,     \* the last operation or handler that ran, with its inputs
    budget      \* remaining environment events

vars == <<options, nodes, players, node, player, db, moves, resumes, emitted, lastOp, budget>>

\* The whole program state as one value, so that handlers which call other
\* handlers can be written as functions from state to state.
World ==
    [options |-> options, nodes |-> nodes, players |-> players, node |-> node,
     player |-> player, db |-> db, moves |-> moves, resumes |-> resumes, emitted |-> <<>>]

Commit(w) ==
    /\ options' = w.options
    /\ nodes' = w.nodes
    /\ players' = w.players
    /\ node' = w.node
    /\ player' = w.player
    /\ db' = w.db
    /\ moves' = w.moves
    /\ resumes' = w.resumes
    /\ emitted' = w.emitted

\* manager.emit: an event is <<name, node or guild, detail>>.
Emit(w, e) == [w EXCEPT !.emitted = Append(@, e)]

Count(seq, e) == Cardinality({i \in 1..Len(seq) : seq[i] = e})

Has(seq, e) == \E i \in 1..Len(seq) : seq[i] = e
\* Sequences over S of length at most n.
SeqsUpTo(S, n) == UNION {[1..k -> S] : k \in 0..n}

\* Tracks of seq different from t, in order.
Without(seq, t) == SelectSeq(seq, LAMBDA x : x # t)


\* Remove the i-th element of a sequence.
RemoveAt(seq, i) == SubSeq(seq, 1, i - 1) \o SubSeq(seq, i + 1, Len(seq))

\* ------------------------------------------------------------------ Node
\* Node.connected: a socket exists and its readyState is OPEN.
Connected(w, n) == w.node[n].socket = "open"

\* Constructor defaults of a Node object.
NewNode(retryAmount) ==
    [socket |-> "none",          \* none | connecting | open | closed
     orphans |-> 0,              \* connecting sockets replaced by connect() that still have listeners
     sessionId |-> Null,
     reconnectAttempts |-> 1,
     reconnectTimeout |-> FALSE, \* the timer this.reconnectTimeout refers to is pending
     strayTimers |-> 0,          \* pending reconnect timers whose handle was overwritten
     retryAmount |-> retryAmount,
     load |-> 0,                 \* stats.cpu.lavalinkLoad / stats.cpu.cores
     playingPlayers |-> 0,       \* stats.playingPlayers
     fatalErrors |-> 0,          \* history: "Unable to connect" errors emitted
     destroyCalled |-> FALSE]    \* history: destroy() was called, and connect() was not called since


\* Node.connect
NodeConnect(w, n) ==
    IF Connected(w, n) THEN w
    ELSE [w EXCEPT !.node[n].orphans = IF w.node[n].socket = "connecting" THEN @ + 1 ELSE @,
                   !.node[n].socket = "connecting"]

\* ---------------------------------------------------------------- Player
DefaultFilters ==
    [distortion |-> Null, equalizer |-> Null, karaoke |-> Null, rotation |-> Null,
     timescale |-> Null, vibrato |-> Null, volume |-> 1]

\* Field initialisers and constructor of a Player object.
NewPlayer(n, volume) ==
    [node |-> n, state |-> "DISCONNECTED", playing |-> FALSE, paused |-> FALSE,
     position |-> 0, volume |-> volume, filters |-> DefaultFilters,
     trackRepeat |-> FALSE, queueRepeat |-> FALSE, isAutoplay |-> FALSE,
     voiceChannel |-> "vc", textChannel |-> "tc",
     voiceEvent |-> FALSE,       \* voiceState.event (token, endpoint) is cached
     current |-> Null, previous |-> Null, queue |-> <<>>,
     dynamicRepeat |-> FALSE,
     shuffleTimers |-> 0,        \* live interval timers started by setDynamicRepeat
     shuffleHandle |-> FALSE,    \* dynamicLoopInterval refers to a live timer
     pendingPlays |-> 0,         \* play() calls awaiting their update-player response
     autoplays |-> <<>>,         \* handleAutoplay() calls awaiting their searches
     autoplayErrors |-> 0]       \* handleAutoplay() calls that ended in a rejection

\* No snapshot stored under "players.<guild>".
NoSnapshot ==
    [guild |-> Null, voiceChannel |-> Null, textChannel |-> Null, volume |-> 0,
     current |-> Null, queue |-> <<>>]

\* Player.save
PlayerSave(w, g) ==
    IF ~w.options.autoResume THEN w
    ELSE [w EXCEPT !.db.players[g] =
            [guild |-> g, voiceChannel |-> w.player[g].voiceChannel,
             textChannel |-> w.player[g].textChannel, volume |-> w.player[g].volume,
             current |-> w.player[g].current, queue |-> w.player[g].queue]]

\* Player.disconnect
PlayerDisconnect(w, g) ==
    IF w.player[g].voiceChannel = Null THEN w
    ELSE [w EXCEPT !.player[g].voiceChannel = Null, !.player[g].state = "DISCONNECTED"]

\* Player.destroy (disconnect = true)
PlayerDestroy(w, g) ==
    LET w1 == [w EXCEPT !.player[g].state = "DESTROYING"]
        w2 == PlayerDisconnect(w1, g)
        w3 == Emit(w2, <<"playerDestroy", g, Null>>)
    IN  [w3 EXCEPT !.players = @ \ {g}, !.db.players[g] = NoSnapshot]

\* Apply F(w, x) for each x of seq, in order.
RECURSIVE ForEach(_, _, _)
ForEach(F(_, _), w, seq) ==
    IF seq = <<>> THEN w ELSE ForEach(F, F(w, Head(seq)), Tail(seq))

\* Player.play() without arguments, up to its first suspension point.
PlayerPlay(w, g) ==
    IF w.player[g].current = Null THEN w        \* RangeError "No current track."
    ELSE [w EXCEPT !.player[g].pendingPlays = @ + 1]

\* Node.destroy
NodeDestroy(w, n) ==
    IF ~Connected(w, n) THEN w
    ELSE
        LET bound == SelectSeq(GuildOrder, LAMBDA g : g \in w.players /\ w.player[g].node = n)
            w1 == ForEach(PlayerDestroy, w, bound)
            w2 == [w1 EXCEPT !.node[n].socket = "none",
                             !.node[n].reconnectAttempts = 1,
                             !.node[n].reconnectTimeout = FALSE]
            w3 == Emit(w2, <<"nodeDestroy", n, Null>>)
        IN  \* manager.destroyNode(identifier): the nested destroy() returns at
            \* once (no socket), then the node is deleted from manager.nodes
            [w3 EXCEPT !.nodes = @ \ {n}]

\* Manager.destroyNode
ManagerDestroyNode(w, n) ==
    IF n \notin w.nodes THEN w
    ELSE LET w1 == NodeDestroy(w, n) IN [w1 EXCEPT !.nodes = @ \ {n}]

\* Manager.createNode and the Node constructor: the registered node of that
\* identifier when there is one, else a new registered Node object.
ManagerCreateNode(w, n) ==
    IF n \in w.nodes THEN w
    ELSE Emit([w EXCEPT !.node[n] = NewNode(w.node[n].retryAmount),
                        !.nodes = @ \cup {n}],
              <<"nodeCreate", n, Null>>)

\* A variant of the handler below that drops the node whatever its socket.
RestNotFoundForced(w, n) ==
    NodeConnect(ManagerCreateNode(
        ManagerDestroyNode([w EXCEPT !.node[n].socket = "open"], n), n), n)

\* The catch branch of the REST handler's request for status 404:
\* this.node.destroy(); this.node.manager.createNode(this.node.options).connect()
RestNotFound(w, n) == NodeConnect(ManagerCreateNode(NodeDestroy(w, n), n), n)

\* Stable sort of a sequence of node ids, ascending by load.
RECURSIVE InsertByLoad(_, _, _)
InsertByLoad(w, n, sorted) ==
    IF sorted = <<>> THEN <<n>>
    ELSE IF w.node[Head(sorted)].load <= w.node[n].load
         THEN <<Head(sorted)>> \o InsertByLoad(w, n, Tail(sorted))
         ELSE <<n>> \o sorted

RECURSIVE SortByLoad(_, _, _)
SortByLoad(w, seq, acc) ==
    IF seq = <<>> THEN acc ELSE SortByLoad(w, Tail(seq), InsertByLoad(w, Head(seq), acc))

\* The connected nodes in the insertion order of manager.nodes:
\* this.nodes.filter((node) => node.connected)
ConnectedNodes(w) ==
    SelectSeq(SelectorOrder, LAMBDA n : n \in w.nodes /\ Connected(w, n))

\* Manager.leastLoadNodes
LeastLoadNodes(w) == SortByLoad(w, ConnectedNodes(w), <<>>)

\* Stable sort of a sequence of node ids, ascending by stats.playingPlayers.
RECURSIVE InsertByPlaying(_, _, _)
InsertByPlaying(w, n, sorted) ==
    IF sorted = <<>> THEN <<n>>
    ELSE IF w.node[Head(sorted)].playingPlayers <= w.node[n].playingPlayers
         THEN <<Head(sorted)>> \o InsertByPlaying(w, n, Tail(sorted))
         ELSE <<n>> \o sorted

RECURSIVE SortByPlaying(_, _, _)
SortByPlaying(w, seq, acc) ==
    IF seq = <<>> THEN acc ELSE SortByPlaying(w, Tail(seq), InsertByPlaying(w, Head(seq), acc))

\* A variant of the getter below that sorts every registered node.
LeastUsedNodesUnfiltered(w) ==
    SortByPlaying(w, SelectSeq(SelectorOrder, LAMBDA n : n \in w.nodes), <<>>)

\* Manager.leastUsedNodes
LeastUsedNodes(w) == SortByPlaying(w, ConnectedNodes(w), <<>>)

\* Node.message for a stats frame: this.stats = { ...payload }
NodeStats(w, n, playing, load) ==
    [w EXCEPT !.node[n].playingPlayers = playing, !.node[n].load = load]


\* A variant of the payload that always carries the player's own position.
StatePayloadLastKnown(p, position) ==
    [encodedTrack |-> p.current, position |-> p.position, volume |-> p.volume,
     paused |-> p.paused, filters |-> p.filters]

\* The state payload moveNode pushes to the destination node.
StatePayload(p, position) ==
    [encodedTrack |-> p.current, position |-> position, volume |-> p.volume,
     paused |-> p.paused, filters |-> p.filters]

\* Player.moveNode, from the call to its first suspension point.  target is
\* the node argument, Null when it is omitted.
PlayerMoveNode(w, g, target) ==
    LET least == LeastLoadNodes(w)
        dest == IF target # Null THEN target
                ELSE IF least = <<>> THEN Null      \* TypeError: first() is undefined
                ELSE Head(least)
        p == w.player[g]
        base == [guild |-> g, currentNode |-> p.node, destinationNode |-> dest,
                 position |-> p.position]
    IN  IF dest = Null \/ dest \notin w.nodes THEN w        \* rejected
        ELSE IF p.node = dest THEN w                         \* no-op
        ELSE IF Connected(w, p.node)
             THEN [w EXCEPT !.moves = Append(@, base @@
                        [pc |-> "fetch", payload |-> StatePayload(p, p.position),
                         log |-> <<"fetch">>])]
             ELSE [w EXCEPT !.moves = Append(@, base @@
                        [pc |-> "push", payload |-> StatePayload(p, p.position),
                         log |-> <<"state">>])]

\* moveNode resumes after the position fetch from the source node.
MoveFetched(w, i, outcome, reported) ==
    LET m == w.moves[i] IN
    IF outcome # "ok" THEN [w EXCEPT !.moves = RemoveAt(@, i)]  \* TypeError on null
    ELSE [w EXCEPT !.moves[i].position = reported,
                   !.moves[i].payload = StatePayload(w.player[m.guild], reported),
                   !.moves[i].pc = "push",
                   !.moves[i].log = @ \o <<"fetchDone", "state">>]

\* A variant of the step below that reassigns the node before the voice push.
MovePushedReassigning(w, i) ==
    LET m == w.moves[i] IN
    IF ~w.player[m.guild].voiceEvent
    THEN [w EXCEPT !.moves = RemoveAt(@, i)]
    ELSE [w EXCEPT !.player[m.guild].node = m.destinationNode,
                   !.moves[i].pc = "voice",
                   !.moves[i].log = @ \o <<"stateDone", "reassign", "voice">>]

\* moveNode resumes after the state push: the voice credentials are pushed.
MovePushed(w, i) ==
    LET m == w.moves[i] IN
    IF ~w.player[m.guild].voiceEvent
    THEN [w EXCEPT !.moves = RemoveAt(@, i)]        \* TypeError: voiceState.event undefined
    ELSE [w EXCEPT !.moves[i].pc = "voice",
                   !.moves[i].log = @ \o <<"stateDone", "voice">>]

\* moveNode resumes after the voice push: reassign, then destroyOldNode().
MoveVoiced(w, i) ==
    LET m == w.moves[i]
        old == m.currentNode
        w1 == [w EXCEPT !.player[m.guild].node = m.destinationNode,
                        !.player[m.guild].state = "MOVING"]
    IN  IF old \in w.nodes /\ Connected(w, old)
        THEN [w1 EXCEPT !.moves[i].pc = "destroy",
                        !.moves[i].log = @ \o <<"voiceDone", "reassign", "moving", "destroy">>]
        ELSE [w1 EXCEPT !.moves[i].pc = "grace",
                        !.moves[i].log = @ \o <<"voiceDone", "reassign", "moving", "timer">>]

\* destroyOldNode resumes after the destroy-player request: the grace timer is set.
MoveDestroyed(w, i) ==
    [w EXCEPT !.moves[i].pc = "grace",
              !.moves[i].log = @ \o <<"destroyDone", "timer">>]

\* The grace timer of destroyOldNode fires.
MoveGraceElapsed(w, i) ==
    [w EXCEPT !.player[w.moves[i].guild].state = "CONNECTED",
              !.moves = RemoveAt(@, i)]


\* ----------------------------------------------------------------- Queue
\* Queue.add of one valid track, without offset.
QueueAdd(w, g, track) ==
    IF w.player[g].current = Null
    THEN [w EXCEPT !.player[g].current = track]
    ELSE [w EXCEPT !.player[g].queue = Append(@, track)]

\* queue.add(track) for each track of a sequence, in order.
RECURSIVE QueueAddEach(_, _, _)
QueueAddEach(w, g, tracks) ==
    IF tracks = <<>> THEN w ELSE QueueAddEach(QueueAdd(w, g, Head(tracks)), g, Tail(tracks))

\* Array.prototype.splice(start, count, ...items) on a sequence: a negative
\* start counts from the end, and start and count are clamped to the sequence.
SpliceStart(seq, start) ==
    IF start < 0
    THEN (IF Len(seq) + start < 0 THEN 0 ELSE Len(seq) + start)
    ELSE (IF start > Len(seq) THEN Len(seq) ELSE start)

SpliceCount(seq, start, count) ==
    LET room == Len(seq) - SpliceStart(seq, start) IN
    IF count < 0 THEN 0 ELSE IF count > room THEN room ELSE count

\* The elements splice returns.
SpliceRemoved(seq, start, count) ==
    SubSeq(seq, SpliceStart(seq, start) + 1,
                SpliceStart(seq, start) + SpliceCount(seq, start, count))

\* The sequence splice leaves.
SpliceLeft(seq, start, count, items) ==
    SubSeq(seq, 1, SpliceStart(seq, start)) \o items \o
    SubSeq(seq, SpliceStart(seq, start) + SpliceCount(seq, start, count) + 1, Len(seq))

\* Queue.add throws: TrackUtils.validate fails on an empty array, and with a
\* current track an offset must lie within 0 .. length. An optional argument
\* is <<>> when absent and <<value>> when given.
QueueAddRejects(w, g, items, offset) ==
    \/ items = <<>>
    \/ /\ w.player[g].current # Null
       /\ offset # <<>>
       /\ offset[1] < 0 \/ offset[1] > Len(w.player[g].queue)

\* A variant of the add below that applies a given offset before it looks at
\* the current track.
QueueAddItemsOffsetFirst(w, g, items, offset) ==
    IF QueueAddRejects(w, g, items, offset) THEN w
    ELSE IF offset # <<>>
    THEN [w EXCEPT !.player[g].queue = SpliceLeft(@, offset[1], 0, items)]
    ELSE IF w.player[g].current = Null
    THEN [w EXCEPT !.player[g].current = Head(items),
                   !.player[g].queue = @ \o Tail(items)]
    ELSE [w EXCEPT !.player[g].queue = @ \o items]

\* Queue.add(tracks, offset) with an array of tracks (a single track behaves
\* as the array of that track).
QueueAddItems(w, g, items, offset) ==
    IF QueueAddRejects(w, g, items, offset) THEN w
    ELSE IF w.player[g].current = Null
    THEN [w EXCEPT !.player[g].current = Head(items),
                   !.player[g].queue = @ \o Tail(items)]
    ELSE IF offset # <<>>
    THEN [w EXCEPT !.player[g].queue = SpliceLeft(@, offset[1], 0, items)]
    ELSE [w EXCEPT !.player[g].queue = @ \o items]

\* A variant of the check below that compares start with end only.
QueueRemoveRejectsEndOnly(w, g, start, end) ==
    end # <<>> /\ start >= end[1]

\* Queue.remove(start, end) throws RangeError("Invalid start or end values.")
QueueRemoveRejects(w, g, start, end) ==
    end # <<>> /\ (start >= end[1] \/ start >= Len(w.player[g].queue))

\* What Queue.remove returns: the removed tracks.
QueueRemoved(w, g, start, end) ==
    IF QueueRemoveRejects(w, g, start, end) THEN <<>>
    ELSE SpliceRemoved(w.player[g].queue, start, IF end # <<>> THEN end[1] - start ELSE 1)

\* Queue.remove(position) and Queue.remove(start, end)
QueueRemove(w, g, start, end) ==
    IF QueueRemoveRejects(w, g, start, end) THEN w
    ELSE [w EXCEPT !.player[g].queue =
            SpliceLeft(@, start, IF end # <<>> THEN end[1] - start ELSE 1, <<>>)]

\* A variant of the advance below that takes the last pending track.
QueueAdvanceFromTail(w, g) ==
    LET q == w.player[g].queue IN
    [w EXCEPT !.player[g].previous = w.player[g].current,
              !.player[g].current = IF q = <<>> THEN Null ELSE q[Len(q)],
              !.player[g].queue = IF q = <<>> THEN <<>> ELSE SubSeq(q, 1, Len(q) - 1)]

\* previous <- current, current <- queue.shift()
QueueAdvance(w, g) ==
    LET q == w.player[g].queue IN
    [w EXCEPT !.player[g].previous = w.player[g].current,
              !.player[g].current = IF q = <<>> THEN Null ELSE Head(q),
              !.player[g].queue = IF q = <<>> THEN <<>> ELSE Tail(q)]

\* A variant of the shift below that leaves the queue as it is.
QueueKeepCurrent(w, g) == w

\* current <- queue.shift()
QueueShiftToCurrent(w, g) ==
    LET q == w.player[g].queue IN
    [w EXCEPT !.player[g].current = IF q = <<>> THEN Null ELSE Head(q),
              !.player[g].queue = IF q = <<>> THEN <<>> ELSE Tail(q)]

\* --------------------------------------------------------- repeat modes
\* Queue.totalSize (and its alias size)
QueueSize(p) == Len(p.queue) + (IF p.current # Null THEN 1 ELSE 0)

\* A variant of the setter below that leaves dynamicRepeat as it is.
PlayerSetTrackRepeatOnly(w, g, repeat) ==
    IF repeat \notin {"true", "false"} THEN w
    ELSE [w EXCEPT !.player[g].trackRepeat = (repeat = "true"),
                   !.player[g].queueRepeat = FALSE]

\* Player.setTrackRepeat; an argument that is not a boolean throws TypeError.
PlayerSetTrackRepeat(w, g, repeat) ==
    IF repeat \notin {"true", "false"} THEN w
    ELSE [w EXCEPT !.player[g].trackRepeat = (repeat = "true"),
                   !.player[g].queueRepeat = FALSE,
                   !.player[g].dynamicRepeat = FALSE]

\* Player.setQueueRepeat
PlayerSetQueueRepeat(w, g, repeat) ==
    IF repeat \notin {"true", "false"} THEN w
    ELSE [w EXCEPT !.player[g].trackRepeat = FALSE,
                   !.player[g].queueRepeat = (repeat = "true"),
                   !.player[g].dynamicRepeat = FALSE]

\* Player.setDynamicRepeat throws: TypeError for a non-boolean, RangeError
\* for a queue size of at most 1, whatever the boolean.
SetDynamicRepeatRejects(w, g, repeat) ==
    repeat \notin {"true", "false"} \/ QueueSize(w.player[g]) <= 1

\* Player.setDynamicRepeat: enabling starts an interval timer and stores its
\* handle over the previous one; disabling clears the timer the handle refers to.
PlayerSetDynamicRepeat(w, g, repeat) ==
    IF SetDynamicRepeatRejects(w, g, repeat) THEN w
    ELSE IF repeat = "true"
    THEN [w EXCEPT !.player[g].trackRepeat = FALSE,
                   !.player[g].queueRepeat = FALSE,
                   !.player[g].dynamicRepeat = TRUE,
                   !.player[g].shuffleTimers = @ + 1,
                   !.player[g].shuffleHandle = TRUE]
    ELSE [w EXCEPT !.player[g].trackRepeat = FALSE,
                   !.player[g].queueRepeat = FALSE,
                   !.player[g].dynamicRepeat = FALSE,
                   !.player[g].shuffleTimers = IF w.player[g].shuffleHandle THEN @ - 1 ELSE @,
                   !.player[g].shuffleHandle = FALSE]

\* What an element of the queue array can be: a track or null.
Entries == Tracks \cup {Null}

\* The orders _.shuffle can give a sequence.
Shuffles(seq) ==
    {s \in [1..Len(seq) -> Entries] : \A t \in Entries : Count(s, t) = Count(seq, t)}

\* The elements of a sequence before its first null: queue.add(null) throws
\* in TrackUtils.validate, which ends a forEach over the sequence.
RECURSIVE AddedBeforeThrow(_)
AddedBeforeThrow(seq) ==
    IF seq = <<>> \/ Head(seq) = Null THEN <<>>
    ELSE <<Head(seq)>> \o AddedBeforeThrow(Tail(seq))

\* A tick of a dynamic-repeat timer: nothing unless dynamicRepeat is set, else
\* the pending tracks are shuffled, the queue cleared and each track added back.
ShuffleTicked(w, g, shuffled) ==
    IF ~w.player[g].dynamicRepeat THEN w
    ELSE QueueAddEach([w EXCEPT !.player[g].queue = <<>>], g, AddedBeforeThrow(shuffled))

\* Player.previous: queue.previous is put at the head of the pending
\* sequence, then stop() asks the node to end the current track.
PlayerPrevious(w, g) ==
    [w EXCEPT !.player[g].queue = <<w.player[g].previous>> \o @]

\* ------------------------------------------------- playback state machine
\* The source a track comes from (track.sourceName).
SourceName(t) == IF t = "A" THEN "youtube" ELSE "soundcloud"

\* The results of Manager.search: for load types empty and error no tracks
\* and no playlist (shown as an empty one); for search one track; for playlist
\* the tracks are under playlist and the top-level tracks are empty; "failed"
\* is a rejected search.
SearchResults ==
    {[loadType |-> lt, tracks |-> <<>>, playlist |-> <<>>] : lt \in {"empty", "error", "failed"}}
    \cup {[loadType |-> "search", tracks |-> <<t>>, playlist |-> <<>>] : t \in Tracks}
    \cup {[loadType |-> "playlist", tracks |-> <<>>, playlist |-> pl] :
              pl \in SeqsUpTo(Tracks, MaxMixLen) \ {<<>>}}

\* Math.random() is draw / RandomSteps, draw in 0 .. RandomSteps - 1.
Draws == 0..(RandomSteps - 1)

\* A variant of the index below that draws within the filtered candidates.
MixIndexWithinCandidates(draw, all, candidates) == (draw * candidates) \div RandomSteps

\* Math.floor(Math.random() * response.playlist.tracks.length - 1), with the
\* lengths of the whole playlist and of the filtered candidates.
MixIndex(draw, all, candidates) == ((draw * all) \div RandomSteps) - 1

\* handleAutoplay rejects: the invocation i ends with an error nothing catches.
AutoplayRejected(w, g, i) ==
    [w EXCEPT !.player[g].autoplays = RemoveAt(@, i),
              !.player[g].autoplayErrors = @ + 1]

\* handleAutoplay up to its first await, in findMix: previousTrack is
\* queue.previous or else the ended track; reading its title fails without one.
NodeHandleAutoplay(w, g, track) ==
    LET prev == IF w.player[g].previous # Null THEN w.player[g].previous ELSE track IN
    IF prev = Null
    THEN [w EXCEPT !.player[g].autoplayErrors = @ + 1]
    ELSE [w EXCEPT !.player[g].autoplays =
            Append(@, [pc |-> "query", track |-> track, previousTrack |-> prev])]

\* findMix after the title search: the mix URL is built from the previous
\* track when it is a youtube track, else from the first track found.
AutoplayQueried(w, g, i, res) ==
    LET a == w.player[g].autoplays[i] IN
    IF res.loadType = "failed" THEN AutoplayRejected(w, g, i)
    ELSE IF SourceName(a.previousTrack) # "youtube" /\ res.tracks = <<>>
    THEN AutoplayRejected(w, g, i)                  \* TypeError: tracks[0] undefined
    ELSE [w EXCEPT !.player[g].autoplays[i].pc = "mix"]

\* handleAutoplay after findMix returned: pick a candidate, add it, play.
AutoplayPicked(w, g, i, res, draw) ==
    LET a == w.player[g].autoplays[i] IN
    IF res.loadType # "playlist" THEN AutoplayRejected(w, g, i)     \* TypeError: playlist null
    ELSE IF a.track = Null THEN AutoplayRejected(w, g, i)           \* TypeError: track.uri
    ELSE LET candidates == Without(res.playlist, a.track)
             k == MixIndex(draw, Len(res.playlist), Len(candidates))
         IN  IF k < 0 \/ k >= Len(candidates)
             THEN AutoplayRejected(w, g, i)         \* add(undefined) throws RangeError
             ELSE PlayerPlay([QueueAdd(w, g, candidates[k + 1]) EXCEPT
                                 !.player[g].autoplays = RemoveAt(@, i)], g)

\* findMix after the mix search: an error or empty result falls back to the
\* default seed, any other result is returned.
AutoplayMixed(w, g, i, res, draw) ==
    IF res.loadType = "failed" THEN AutoplayRejected(w, g, i)
    ELSE IF res.loadType \in {"error", "empty"}
    THEN [w EXCEPT !.player[g].autoplays[i].pc = "base"]
    ELSE AutoplayPicked(w, g, i, res, draw)

\* findMix after the search for the default seed.
AutoplayBased(w, g, i, res) ==
    IF res.loadType = "failed" \/ res.tracks = <<>>
    THEN AutoplayRejected(w, g, i)                  \* TypeError: tracks[0] undefined
    ELSE [w EXCEPT !.player[g].autoplays[i].pc = "baseMix"]

\* findMix after the mix search of the default seed: its result is returned.
AutoplayBaseMixed(w, g, i, res, draw) ==
    IF res.loadType = "failed" THEN AutoplayRejected(w, g, i)
    ELSE AutoplayPicked(w, g, i, res, draw)

\* A variant of queueEnd that emits before it clears the current track.
NodeQueueEndEmitFirst(w, g, track) ==
    LET w1 == [w EXCEPT !.player[g].current = Null,
                        !.player[g].playing = w.player[g].isAutoplay]
    IN  IF w.player[g].isAutoplay
        THEN NodeHandleAutoplay(w1, g, track)
        ELSE [Emit(w, <<"queueEnd", g, w.player[g].current>>) EXCEPT
                 !.player[g].current = Null, !.player[g].playing = FALSE]

\* Node.queueEnd; the queueEnd event carries the current track its listeners
\* see.
NodeQueueEnd(w, g, track) ==
    LET w1 == [w EXCEPT !.player[g].current = Null,
                        !.player[g].playing = w.player[g].isAutoplay]
    IN  IF w.player[g].isAutoplay
        THEN NodeHandleAutoplay(w1, g, track)
        ELSE Emit(w1, <<"queueEnd", g, w1.player[g].current>>)

\* A variant of the step below that starts playback whatever the option says.
PlayRegardless(w, g) == PlayerPlay(w, g)

\* if (autoPlay) player.play()
PlayIfAutoPlay(w, g) == IF w.options.autoPlay THEN PlayerPlay(w, g) ELSE w

\* A variant of the branch below that also dequeues the next track.
TrackReplacedDequeuing(w, g) ==
    LET q == w.player[g].queue IN
    [Emit(w, <<"trackEnd", g, Null>>) EXCEPT
        !.player[g].previous = w.player[g].current,
        !.player[g].current = IF q = <<>> THEN Null ELSE Head(q),
        !.player[g].queue = IF q = <<>> THEN <<>> ELSE Tail(q)]

\* The branch of Node.trackEnd for reason "replaced".
TrackReplaced(w, g) ==
    [Emit(w, <<"trackEnd", g, Null>>) EXCEPT !.player[g].previous = w.player[g].current]

\* A variant of the step below that puts the ended track at the head in both
\* repeat modes.
RepeatReinsertAtHead(w, g) ==
    [w EXCEPT !.player[g].queue = <<w.player[g].current>> \o @]

\* The repeat branch of Node.trackEnd puts the ended track back: at the head
\* of the pending sequence under track repeat, at its tail under queue repeat.
RepeatReinsert(w, g) ==
    IF w.player[g].trackRepeat
    THEN [w EXCEPT !.player[g].queue = <<w.player[g].current>> \o @]
    ELSE QueueAdd(w, g, w.player[g].current)

\* A variant of the guard that ignores the event only during a move.
IgnoresTrackEndMovingOnly(state) == state = "MOVING"

\* The guard of Node.trackEnd: the event is ignored in these player states.
IgnoresTrackEnd(state) == state \in {"MOVING", "RESUMING"}

\* Node.trackEnd; track is the current track captured by handleEvent.
NodeTrackEnd(w, g, track, reason) ==
    LET p == w.player[g] IN
    IF IgnoresTrackEnd(p.state) THEN w
    ELSE IF reason \in {"loadFailed", "cleanup"} THEN
        LET w1 == QueueAdvance(w, g) IN
        IF w1.player[g].current = Null THEN NodeQueueEnd(w1, g, track)
        ELSE PlayIfAutoPlay(Emit(w1, <<"trackEnd", g, Null>>), g)
    ELSE IF reason = "replaced" THEN TrackReplaced(w, g)
    ELSE IF track # Null /\ (p.trackRepeat \/ p.queueRepeat) THEN
        LET w1 == RepeatReinsert(w, g)
            w2 == QueueAdvance(w1, g)
            w3 == Emit(w2, <<"trackEnd", g, Null>>)
        IN  IF reason = "stopped"
            THEN LET w4 == QueueShiftToCurrent(w3, g) IN
                 IF w4.player[g].current = Null THEN NodeQueueEnd(w4, g, track)
                 ELSE PlayIfAutoPlay(w4, g)
            ELSE PlayIfAutoPlay(w3, g)
    ELSE IF Len(p.queue) > 0 THEN
        PlayIfAutoPlay(Emit(QueueAdvance(w, g), <<"trackEnd", g, Null>>), g)
    ELSE NodeQueueEnd(w, g, track)

\* Node.handleEvent for a TrackEndEvent of a guild that has a player.
HandleTrackEndEvent(w, g, reason) ==
    NodeTrackEnd(PlayerSave(w, g), g, w.player[g].current, reason)

\* Player.play resumes after its update-player request.
PlayUpdated(w, g) ==
    PlayerSave([w EXCEPT !.player[g].position = 0,
                         !.player[g].playing = TRUE,
                         !.player[g].pendingPlays = @ - 1], g)

\* --------------------------------------------------- Node socket handlers
\* A variant of the condition below that looks at the close code only.
ShouldReconnectCodeOnly(code, reason) == code # 1000

\* The condition under which Node.close schedules a reconnect.
ShouldReconnect(code, reason) == code # 1000 \/ reason # "destroy"

\* Node.reconnect: arm the reconnect timer (the previous handle is overwritten,
\* not cleared).
NodeReconnect(w, n) ==
    [w EXCEPT !.node[n].strayTimers = IF w.node[n].reconnectTimeout THEN @ + 1 ELSE @,
              !.node[n].reconnectTimeout = TRUE]

\* The callback of the reconnect timer.
ReconnectCallback(w, n) ==
    IF w.node[n].reconnectAttempts >= w.node[n].retryAmount
    THEN LET w1 == Emit([w EXCEPT !.node[n].fatalErrors = @ + 1], <<"nodeError", n, "Unable to connect">>)
         IN  NodeDestroy(w1, n)
    ELSE LET w1 == [w EXCEPT !.node[n].socket = "none"]
             w2 == NodeConnect(Emit(w1, <<"nodeReconnect", n, Null>>), n)
         IN  [w2 EXCEPT !.node[n].reconnectAttempts = @ + 1]

\* Node.error
NodeError(w, n) == Emit(w, <<"nodeError", n, "socket">>)

\* Node.open
NodeOpen(w, n) ==
    Emit([w EXCEPT !.node[n].reconnectTimeout = FALSE], <<"nodeConnect", n, Null>>)

\* The body of the players loop of Node.close.
CloseMovePlayer(w, g) ==
    IF ~w.options.autoMove THEN [w EXCEPT !.player[g].playing = FALSE]
    ELSE PlayerMoveNode(w, g, Null)

\* Node.close
NodeClose(w, n, code, reason) ==
    LET w1 == Emit(w, <<"nodeDisconnect", n, Null>>)
        w2 == IF ShouldReconnect(code, reason) THEN NodeReconnect(w1, n) ELSE w1
        bound == SelectSeq(GuildOrder, LAMBDA g : g \in w2.players /\ w2.player[g].node = n)
    IN  ForEach(CloseMovePlayer, w2, bound)


\* ------------------------------------------------------- session resume
\* The node a decodeTracks or search request goes to: the first connected node
\* (every node has search enabled), Null when none is connected.
RequestNode(w) ==
    LET connected == SelectSeq(NodeOrder, LAMBDA n : n \in w.nodes /\ Connected(w, n))
    IN  IF connected = <<>> THEN Null ELSE Head(connected)

\* Manager.create and the Player constructor, for a guild without a player.
\* requested is options.node.  The guild's earlier Player object, if any, is
\* unreachable from the manager: its pending moveNode continuations are dropped.
ManagerCreate(w, g, requested, volume) ==
    LET least == LeastLoadNodes(w)
        n == IF requested \in w.nodes THEN requested
             ELSE IF least = <<>> THEN Null ELSE Head(least)
        w1 == [w EXCEPT !.player[g] = NewPlayer(n, volume),
                        !.players = @ \cup {g},
                        !.moves = SelectSeq(@, LAMBDA m : m.guild # g)]
    IN  Emit(w1, <<"playerCreate", g, Null>>)

\* ManagerCreate throws RangeError("No available nodes.")
CreateFails(w, requested) == requested \notin w.nodes /\ LeastLoadNodes(w) = <<>>

\* A variant of the call below that constructs a player without looking for
\* an existing one.
ManagerCreateAlways(w, g, requested, volume) ==
    IF CreateFails(w, requested) THEN w
    ELSE ManagerCreate(w, g, requested, volume)

\* Manager.create for any guild: the existing player is returned when the
\* guild has one (Manager.create and the Player constructor both test
\* players.has(guild)); without an available node the constructor throws.
ManagerCreateCall(w, g, requested, volume) ==
    IF g \in w.players THEN w
    ELSE IF CreateFails(w, requested) THEN w
    ELSE ManagerCreate(w, g, requested, volume)

\* Player.connect
PlayerConnect(w, g) == [w EXCEPT !.player[g].state = "CONNECTED"]

\* A variant of the test below that never finds the guild tracked.
AlreadyTrackedNever(w, g) == FALSE

\* The test of the resume loop for a remote player that is tracked locally.
AlreadyTracked(w, g) == g \in w.players

\* The resume loop of the ready handler, from the head of the remaining remote
\* players up to the next suspension point or return.
ResumeLoop(w, i) ==
    LET r == w.resumes[i]
        done == [w EXCEPT !.resumes = RemoveAt(@, i)]
    IN  IF r.list = <<>> THEN done
        ELSE
        LET rp == Head(r.list)
            g == rp.guildId
            snap == w.db.players[g]
        IN  IF AlreadyTracked(w, g) THEN done                       \* return
            ELSE IF snap.guild = Null \/ snap.voiceChannel = Null \/ snap.textChannel = Null
            THEN [done EXCEPT !.db.players[g] = NoSnapshot]         \* delete, return
            ELSE IF CreateFails(w, r.node) THEN done                \* RangeError
            ELSE
            LET w1 == ManagerCreate(done, g, r.node, snap.volume)
                w2 == [w1 EXCEPT !.player[g].voiceChannel = snap.voiceChannel,
                                 !.player[g].textChannel = snap.textChannel]
            IN  IF snap.current = Null THEN w2                      \* return
                ELSE [w2 EXCEPT !.player[g].state = "RESUMING",
                                !.resumes = Append(@,
                                    [r EXCEPT !.snap = snap,
                                              \* decodeTracks never settles without a node
                                              !.pc = IF RequestNode(w2) = Null
                                                     THEN "hung" ELSE "decode"])]

\* Node.message for a ready frame, up to its first suspension point.
NodeReady(w, n) ==
    LET w1 == [w EXCEPT !.node[n].sessionId = "session", !.db.sessionId[n] = "session"]
    IN  IF ~w.options.autoResume THEN w1
        ELSE [w1 EXCEPT !.resumes = Append(@,
                  [node |-> n, pc |-> "patch", list |-> <<>>, snap |-> NoSnapshot])]

\* The ready handler resumes after the session patch: get-all-players is issued.
ResumePatched(w, i) == [w EXCEPT !.resumes[i].pc = "list"]

\* The ready handler resumes after get-all-players; list is the node's players.
ResumeListed(w, i, outcome, list) ==
    IF outcome # "ok" THEN [w EXCEPT !.resumes = RemoveAt(@, i)]   \* TypeError: null
    ELSE ResumeLoop([w EXCEPT !.resumes[i].list = list], i)


\* The ready handler resumes after decodeTracks.
ResumeDecoded(w, i, outcome) ==
    LET r == w.resumes[i]
        rp == Head(r.list)
        g == rp.guildId
        failed == [w EXCEPT !.resumes = RemoveAt(@, i)]
        rest == Without(r.snap.queue \o <<r.snap.current>>, r.snap.current)
        w1 == QueueAdd(w, g, r.snap.current)
    IN  IF outcome # "ok" THEN failed                                \* rejected
        ELSE IF Len(r.snap.queue) > 0 /\ rest = <<>>
        THEN [w1 EXCEPT !.resumes = RemoveAt(@, i)]                  \* add([]) throws
        ELSE
        LET w2 == [w1 EXCEPT !.player[g].queue = IF Len(r.snap.queue) > 0 THEN @ \o rest ELSE @,
                             !.player[g].filters = rp.filters,
                             !.player[g].volume = rp.volume,
                             !.player[g].position = rp.position]
        IN  IF w2.player[g].voiceChannel = Null
            THEN [w2 EXCEPT !.resumes = RemoveAt(@, i)]              \* connect() throws
            ELSE [PlayerConnect(w2, g) EXCEPT !.resumes[i].pc = "update"]

\* The ready handler resumes after its update-player request: next remote player.
ResumeUpdated(w, i) == ResumeLoop([w EXCEPT !.resumes[i].list = Tail(@)], i)

\* ---------------------------------------------------------------- actions
Op(name, n, g, arg, code) ==
    [op |-> name, node |-> n, guild |-> g, arg |-> arg, code |-> code, list |-> <<>>]

\* A search response as an operation: the load type, the random draw and the
\* tracks of the playlist.
Mix(name, g, res, draw) ==
    [Op(name, Null, g, res.loadType, draw) EXCEPT !.list = res.playlist]

Step(w, op) == Commit(w) /\ lastOp' = op /\ UNCHANGED budget

Spend(w, op, field) == Commit(w) /\ lastOp' = op /\ budget' = [budget EXCEPT ![field] = @ - 1]

\* Manager.init: connect every registered node.
ManagerInit ==
    /\ ~options.initiated
    /\ LET registered == SelectSeq(NodeOrder, LAMBDA n : n \in nodes)
           w1 == ForEach(NodeConnect, World, registered)
       IN  Step([w1 EXCEPT !.options.initiated = TRUE,
                           !.node = [n \in NodeIds |-> IF n \in nodes
                                                      THEN [@[n] EXCEPT !.destroyCalled = FALSE]
                                                      ELSE @[n]]],
                Op("init", Null, Null, Null, 0))

\* A user call of Node.connect().
ConnectCall(n) ==
    /\ options.initiated
    /\ budget.connects > 0
    /\ Spend(NodeConnect([World EXCEPT !.node[n].destroyCalled = FALSE], n),
             Op("connect", n, Null, Null, 0), "connects")

\* The socket of node n opens.
SocketOpen(n) ==
    /\ node[n].socket = "connecting"
    /\ Step(NodeOpen([World EXCEPT !.node[n].socket = "open"], n), Op("open", n, Null, Null, 0))

\* The socket of node n reports an error.
SocketError(n) ==
    /\ node[n].socket \in {"connecting", "open"}
    /\ Step(NodeError(World, n), Op("error", n, Null, Null, 0))

\* The socket of node n closes (a failed connection attempt included).
SocketClose(n, code, reason) ==
    /\ node[n].socket \in {"connecting", "open"}
    /\ budget.closes > 0
    /\ Spend(NodeClose([World EXCEPT !.node[n].socket = "closed"], n, code, reason),
             Op("close", n, Null, reason, code), "closes")

\* A socket that connect() replaced while it was connecting opens: its
\* listeners are still attached.
OrphanOpen(n) ==
    /\ node[n].orphans > 0
    /\ Step(NodeOpen([World EXCEPT !.node[n].orphans = @ - 1], n), Op("orphanOpen", n, Null, Null, 0))

\* A socket that connect() replaced while it was connecting fails.
OrphanClose(n, code, reason) ==
    /\ node[n].orphans > 0
    /\ budget.closes > 0
    /\ Spend(NodeClose([World EXCEPT !.node[n].orphans = @ - 1], n, code, reason),
             Op("orphanClose", n, Null, reason, code), "closes")

\* A pending reconnect timer of node n fires.
ReconnectTimerFire(n) ==
    \/ /\ node[n].reconnectTimeout
       /\ Step(ReconnectCallback([World EXCEPT !.node[n].reconnectTimeout = FALSE], n),
               Op("reconnectTimer", n, Null, "handle", 0))
    \/ /\ node[n].strayTimers > 0
       /\ Step(ReconnectCallback([World EXCEPT !.node[n].strayTimers = @ - 1], n),
               Op("reconnectTimer", n, Null, "stray", 0))

\* A user call of Node.destroy().
DestroyCall(n) ==
    /\ budget.destroys > 0
    /\ Spend(NodeDestroy([World EXCEPT !.node[n].destroyCalled = TRUE], n),
             Op("destroy", n, Null, Null, 0), "destroys")

\* A user call of Manager.destroyNode(identifier).
DestroyNodeCall(n) ==
    /\ budget.destroys > 0
    /\ Spend(ManagerDestroyNode(World, n), Op("destroyNode", n, Null, Null, 0), "destroys")

\* A user call of Player.moveNode(target), target possibly omitted, made when
\* no earlier move is still in flight.
MoveNodeCall(g, target) ==
    /\ g \in players
    /\ budget.moveCalls > 0
    /\ moves = <<>>
    /\ Spend(PlayerMoveNode(World, g, target), Op("moveNode", target, g, Null, 0), "moveCalls")

RestOutcomes == {"ok", "fail"}

MoveFetchResponse(i, outcome, reported) ==
    /\ i \in 1..Len(moves) /\ moves[i].pc = "fetch"
    /\ Step(MoveFetched(World, i, outcome, reported),
            Op("moveFetched", moves[i].currentNode, moves[i].guild, outcome, reported))

MovePushResponse(i) ==
    /\ i \in 1..Len(moves) /\ moves[i].pc = "push"
    /\ Step(MovePushed(World, i), Op("movePushed", moves[i].destinationNode, moves[i].guild, Null, 0))

MoveVoiceResponse(i) ==
    /\ i \in 1..Len(moves) /\ moves[i].pc = "voice"
    /\ Step(MoveVoiced(World, i), Op("moveVoiced", moves[i].destinationNode, moves[i].guild, Null, 0))

MoveDestroyResponse(i) ==
    /\ i \in 1..Len(moves) /\ moves[i].pc = "destroy"
    /\ Step(MoveDestroyed(World, i), Op("moveDestroyed", moves[i].currentNode, moves[i].guild, Null, 0))

MoveGraceTimer(i) ==
    /\ i \in 1..Len(moves) /\ moves[i].pc = "grace"
    /\ Step(MoveGraceElapsed(World, i), Op("moveGrace", moves[i].destinationNode, moves[i].guild, Null, 0))

\* A TrackEndEvent frame for guild g arrives on the open socket of node n.
TrackEndEvent(n, g, reason) ==
    /\ node[n].socket = "open"
    /\ g \in players
    /\ budget.trackEnds > 0
    /\ Spend(HandleTrackEndEvent(World, g, reason), Op("trackEnd", Null, g, reason, 0), "trackEnds")

\* The update-player request of a play() call returns.
PlayResponse(g) ==
    /\ player[g].pendingPlays > 0
    /\ Step(PlayUpdated(World, g), Op("played", Null, g, Null, 0))

\* The user calls a repeat-mode setter of the player.
SetTrackRepeatCall(g, repeat) ==
    /\ g \in players
    /\ budget.repeatCalls > 0
    /\ Spend(PlayerSetTrackRepeat(World, g, repeat),
             Op("setTrackRepeat", Null, g, repeat, 0), "repeatCalls")

SetQueueRepeatCall(g, repeat) ==
    /\ g \in players
    /\ budget.repeatCalls > 0
    /\ Spend(PlayerSetQueueRepeat(World, g, repeat),
             Op("setQueueRepeat", Null, g, repeat, 0), "repeatCalls")

SetDynamicRepeatCall(g, repeat) ==
    /\ g \in players
    /\ budget.repeatCalls > 0
    /\ Spend(PlayerSetDynamicRepeat(World, g, repeat),
             Op("setDynamicRepeat", Null, g, repeat,
                IF SetDynamicRepeatRejects(World, g, repeat) THEN 1 ELSE 0), "repeatCalls")

\* The user calls player.previous().
PreviousCall(g) ==
    /\ g \in players
    /\ budget.queueCalls > 0
    /\ Spend(PlayerPrevious(World, g), Op("previous", Null, g, Null, 0), "queueCalls")

\* An interval timer of setDynamicRepeat fires.
ShuffleTick(g, shuffled) ==
    /\ player[g].shuffleTimers > 0
    /\ budget.ticks > 0
    /\ shuffled \in Shuffles(player[g].queue)
    /\ Spend(ShuffleTicked(World, g, shuffled), Op("shuffleTick", Null, g, Null, 0), "ticks")

\* The user calls player.play().
PlayCall(g) ==
    /\ g \in players
    /\ player[g].current # Null
    /\ budget.plays > 0
    /\ Spend(PlayerPlay(World, g), Op("play", player[g].node, g, Null, 0), "plays")

\* The update-player request of a play() call fails: with status 404 the
\* node is torn down and replaced, then request returns null either way and
\* play() goes on.
PlayFailure(g, status) ==
    /\ player[g].pendingPlays > 0
    /\ LET n == player[g].node
           w1 == IF status = 404 THEN RestNotFound(World, n) ELSE World
       IN  Step(PlayUpdated(w1, g), Op("playFailed", n, g, Null, status))

\* The searches of handleAutoplay return, for invocation i of guild g.
AutoplayQueryResponse(g, i, res) ==
    /\ g \in players
    /\ i \in 1..Len(player[g].autoplays) /\ player[g].autoplays[i].pc = "query"
    /\ Step(AutoplayQueried(World, g, i, res), Mix("autoplayQuery", g, res, 0))

AutoplayMixResponse(g, i, res, draw) ==
    /\ g \in players
    /\ i \in 1..Len(player[g].autoplays) /\ player[g].autoplays[i].pc = "mix"
    /\ Step(AutoplayMixed(World, g, i, res, draw), Mix("autoplayMix", g, res, draw))

AutoplayBaseResponse(g, i, res) ==
    /\ g \in players
    /\ i \in 1..Len(player[g].autoplays) /\ player[g].autoplays[i].pc = "base"
    /\ Step(AutoplayBased(World, g, i, res), Mix("autoplayBase", g, res, 0))

AutoplayBaseMixResponse(g, i, res, draw) ==
    /\ g \in players
    /\ i \in 1..Len(player[g].autoplays) /\ player[g].autoplays[i].pc = "baseMix"
    /\ Step(AutoplayBaseMixed(World, g, i, res, draw), Mix("autoplayBaseMix", g, res, draw))

\* The guild's Player object is held by a ready handler that is resuming it.
HeldByResume(rs, g) ==
    \E i \in 1..Len(rs) :
        /\ rs[i].pc \in {"decode", "update", "hung"}
        /\ rs[i].list # <<>> /\ Head(rs[i].list).guildId = g

\* The user calls manager.create({guild, node}). A guild whose destroyed
\* Player object is still held by a ready handler is not created anew.
CreateCall(g, requested) ==
    /\ budget.creates > 0
    /\ g \in players \/ ~HeldByResume(resumes, g)
    /\ Spend(ManagerCreateCall(World, g, requested, 80),
             Op("create", requested, g, Null, 0), "creates")

\* The user calls player.destroy().
PlayerDestroyCall(g) ==
    /\ g \in players
    /\ budget.destroys > 0
    /\ Spend(PlayerDestroy(World, g), Op("playerDestroy", Null, g, Null, 0), "destroys")

\* A stats frame arrives on the open socket of node n.
StatsFrame(n, playing, load) ==
    /\ node[n].socket = "open"
    /\ budget.stats > 0
    /\ Spend(NodeStats(World, n, playing, load), Op("stats", n, Null, Null, playing), "stats")

\* The user calls player.queue.add(items, offset).
QueueAddCall(g, items, offset) ==
    /\ g \in players
    /\ budget.queueCalls > 0
    /\ Spend(QueueAddItems(World, g, items, offset),
             [Op("add", Null, g, [offset |-> offset],
                 IF QueueAddRejects(World, g, items, offset) THEN 1 ELSE 0)
              EXCEPT !.list = items],
             "queueCalls")

\* The user calls player.queue.remove(start) or player.queue.remove(start, end).
QueueRemoveCall(g, start, end) ==
    /\ g \in players
    /\ budget.queueCalls > 0
    /\ Spend(QueueRemove(World, g, start, end),
             [Op("remove", Null, g, [start |-> start, end |-> end],
                 IF QueueRemoveRejects(World, g, start, end) THEN 1 ELSE 0)
              EXCEPT !.list = QueueRemoved(World, g, start, end)],
             "queueCalls")

\* A ready frame arrives on the open socket of node n.
ReadyFrame(n) ==
    /\ node[n].socket = "open"
    /\ budget.readies > 0
    /\ Spend(NodeReady(World, n), Op("ready", n, Null, Null, 0), "readies")

CustomFilters ==
    [distortion |-> "d", equalizer |-> "e", karaoke |-> "k", rotation |-> "r",
     timescale |-> "t", vibrato |-> "v", volume |-> 2]

\* A player as the node reports it in get-all-players.
RemotePlayer(g) == [guildId |-> g, volume |-> 50, position |-> MaxPosition, filters |-> CustomFilters]

\* The lists get-all-players may return: the guilds, each at most once, in any order.
RECURSIVE Arrangements(_)
Arrangements(S) ==
    {<<>>} \cup UNION {{<<RemotePlayer(g)>> \o rest : rest \in Arrangements(S \ {g})} : g \in S}

ResumePatchResponse(i) ==
    /\ i \in 1..Len(resumes) /\ resumes[i].pc = "patch"
    /\ Step(ResumePatched(World, i), Op("resumePatched", resumes[i].node, Null, Null, 0))

ResumeListResponse(i, outcome, list) ==
    /\ i \in 1..Len(resumes) /\ resumes[i].pc = "list"
    /\ Step(ResumeListed(World, i, outcome, list),
            [Op("resumeListed", resumes[i].node, Null, outcome, Len(list)) EXCEPT
                !.list = [k \in 1..Len(list) |-> list[k].guildId]])

ResumeDecodeResponse(i, outcome) ==
    /\ i \in 1..Len(resumes) /\ resumes[i].pc = "decode"
    /\ Step(ResumeDecoded(World, i, outcome),
            Op("resumeDecoded", resumes[i].node, Head(resumes[i].list).guildId, outcome, 0))

ResumeUpdateResponse(i) ==
    /\ i \in 1..Len(resumes) /\ resumes[i].pc = "update"
    /\ Step(ResumeUpdated(World, i),
            Op("resumeUpdated", resumes[i].node, Head(resumes[i].list).guildId, Null, 0))

\* ------------------------------------------------------------ specifications
ConfiguredPlayer(n, tr, qr, ve, pos) ==
    [NewPlayer(n, 80) EXCEPT !.state = "CONNECTED", !.current = "A", !.queue = <<"B">>,
                             !.trackRepeat = tr, !.queueRepeat = qr, !.voiceEvent = ve,
                             !.position = pos, !.playing = TRUE]

\* The node connection lifecycle: a manager with two nodes and a playing
\* player on n1, before Manager.init.
InitNode ==
    /\ options \in [autoMove : BOOLEAN, autoPlay : {TRUE}, autoResume : {TRUE}, initiated : {FALSE}]
    /\ nodes = NodeIds
    /\ \E r \in RetryAmounts : node = [n \in NodeIds |-> NewNode(IF n = "n1" THEN r ELSE Infinity)]
    /\ players = PlayingGuilds
    /\ player = [g \in Guilds |-> IF g \in PlayingGuilds
                                  THEN ConfiguredPlayer("n1", FALSE, FALSE, TRUE, 0)
                                  ELSE NewPlayer("n1", 80)]
    /\ db = [players |-> [g \in Guilds |-> NoSnapshot], sessionId |-> [n \in NodeIds |-> Null]]
    /\ resumes = <<>>
    /\ moves = <<>>
    /\ emitted = <<>>
    /\ lastOp = Op("new", Null, Null, Null, 0)
    /\ budget = [closes |-> MaxCloses, connects |-> MaxConnectCalls, destroys |-> MaxDestroyCalls,
                 moveCalls |-> 0, trackEnds |-> 0, readies |-> 0]

NextNode ==
    \/ ManagerInit
    \/ \E n \in CalledNodes : ConnectCall(n)
    \/ \E n \in NodeIds : SocketOpen(n)
    \/ \E n \in CalledNodes : SocketError(n)
    \/ \E n \in CalledNodes, c \in CloseCodes, r \in CloseReasons : SocketClose(n, c, r)
    \/ \E n \in NodeIds : OrphanOpen(n)
    \/ \E n \in NodeIds, c \in CloseCodes, r \in CloseReasons : OrphanClose(n, c, r)
    \/ \E n \in NodeIds : ReconnectTimerFire(n)
    \/ \E n \in CalledNodes : DestroyCall(n)
    \/ \E n \in CalledNodes : DestroyNodeCall(n)
    \/ \E i \in 1..Len(moves) : MovePushResponse(i)
    \/ \E i \in 1..Len(moves) : MoveVoiceResponse(i)
    \/ \E i \in 1..Len(moves) : MoveDestroyResponse(i)
    \/ \E i \in 1..Len(moves) : MoveGraceTimer(i)

SpecNode == InitNode /\ [][NextNode]_vars


\* Player profiles of the initial states: (volume, filters, paused, position).
Profiles ==
    {[volume |-> 80, filters |-> DefaultFilters, paused |-> FALSE, position |-> 0],
     [volume |-> 30, filters |-> CustomFilters, paused |-> TRUE, position |-> MaxPosition]}

\* A snapshot left in the store by an earlier run of the process.
StoredSnapshots ==
    {[guild |-> "g1", voiceChannel |-> "vc", textChannel |-> "tc", volume |-> 80,
      current |-> "A", queue |-> <<"B">>],
     [guild |-> "g1", voiceChannel |-> Null, textChannel |-> "tc", volume |-> 80,
      current |-> "A", queue |-> <<"B">>]}

\* The players of the initial states: one playing player on n1, in each repeat
\* mode and profile.
InitialPlayers ==
    {[g \in Guilds |->
        IF g \notin PlayingGuilds THEN NewPlayer("n1", 80)
        ELSE [ConfiguredPlayer("n1", tr, qr, TRUE, pr.position) EXCEPT
                !.volume = pr.volume, !.filters = pr.filters,
                !.paused = pr.paused, !.playing = ~pr.paused]] :
     <<tr, qr>> \in {<<FALSE, FALSE>>, <<TRUE, FALSE>>, <<FALSE, TRUE>>}, pr \in Profiles}

\* Playback and failover: a player on n1 without repeat mode, in each profile,
\* after Manager.init, both sockets open. A node that loses its socket stays down: its reconnect delay
\* is longer than the behaviours explored here.
Init ==
    /\ options \in [autoMove : BOOLEAN, autoPlay : {TRUE}, autoResume : {TRUE}, initiated : {TRUE}]
    /\ nodes = NodeIds
    /\ node = [n \in NodeIds |-> [NewNode(Infinity) EXCEPT !.socket = "open"]]
    /\ players = PlayingGuilds
    /\ player \in {pl \in InitialPlayers : \A g \in PlayingGuilds : ~pl[g].trackRepeat /\ ~pl[g].queueRepeat}
    /\ db = [players |-> [g \in Guilds |-> NoSnapshot], sessionId |-> [n \in NodeIds |-> Null]]
    /\ moves = <<>>
    /\ resumes = <<>>
    /\ emitted = <<>>
    /\ lastOp = Op("new", Null, Null, Null, 0)
    /\ budget = [closes |-> MaxSocketLosses, connects |-> 0, destroys |-> 0,
                 moveCalls |-> MaxMoveCalls, trackEnds |-> MaxTrackEnds, readies |-> 0]

Next ==
    \/ \E n \in NodeIds : SocketClose(n, 1006, "lost")
    \/ \E g \in Guilds, t \in NodeIds \cup {Null} : MoveNodeCall(g, t)
    \/ \E i \in 1..Len(moves), o \in RestOutcomes, pos \in Positions : MoveFetchResponse(i, o, pos)
    \/ \E i \in 1..Len(moves) : MovePushResponse(i)
    \/ \E i \in 1..Len(moves) : MoveVoiceResponse(i)
    \/ \E i \in 1..Len(moves) : MoveDestroyResponse(i)
    \/ \E i \in 1..Len(moves) : MoveGraceTimer(i)
    \/ \E n \in NodeIds, g \in Guilds, r \in EndReasons : TrackEndEvent(n, g, r)
    \/ \E g \in Guilds : PlayResponse(g)

Spec == Init /\ [][Next]_vars


\* Session resume: either a playing player on n1, in each repeat mode, or no
\* player yet and a snapshot of an earlier run in the store; after Manager.init, both sockets
\* open.
InitResume ==
    /\ options \in [autoMove : {TRUE}, autoPlay : {TRUE}, autoResume : {TRUE}, initiated : {TRUE}]
    /\ nodes = NodeIds
    /\ node = [n \in NodeIds |-> [NewNode(Infinity) EXCEPT !.socket = "open"]]
    /\ \/ /\ players = PlayingGuilds
          /\ player \in {pl \in InitialPlayers : \A g \in PlayingGuilds : ~pl[g].paused}
          /\ db = [players |-> [g \in Guilds |-> NoSnapshot], sessionId |-> [n \in NodeIds |-> Null]]
       \/ /\ players = {}
          /\ player = [g \in Guilds |-> NewPlayer("n1", 80)]
          /\ \E snap \in StoredSnapshots :
                db = [players |-> [g \in Guilds |-> IF g \in PlayingGuilds THEN snap ELSE NoSnapshot],
                      sessionId |-> [n \in NodeIds |-> Null]]
    /\ moves = <<>>
    /\ resumes = <<>>
    /\ emitted = <<>>
    /\ lastOp = Op("new", Null, Null, Null, 0)
    /\ budget = [closes |-> 0, connects |-> 0, destroys |-> 0,
                 moveCalls |-> MaxMoveCalls, trackEnds |-> MaxTrackEnds, readies |-> MaxReadyFrames]

NextResume ==
    \/ \E n \in CalledNodes : ReadyFrame(n)
    \/ \E i \in 1..Len(resumes) : ResumePatchResponse(i)
    \/ \E i \in 1..Len(resumes), o \in RestOutcomes, l \in Arrangements(PlayingGuilds) : ResumeListResponse(i, o, l)
    \/ \E i \in 1..Len(resumes), o \in RestOutcomes : ResumeDecodeResponse(i, o)
    \/ \E i \in 1..Len(resumes) : ResumeUpdateResponse(i)
    \/ \E g \in Guilds, t \in NodeIds \cup {Null} : MoveNodeCall(g, t)
    \/ \E i \in 1..Len(moves), o \in RestOutcomes, pos \in Positions : MoveFetchResponse(i, o, pos)
    \/ \E i \in 1..Len(moves) : MovePushResponse(i)
    \/ \E i \in 1..Len(moves) : MoveVoiceResponse(i)
    \/ \E i \in 1..Len(moves) : MoveDestroyResponse(i)
    \/ \E i \in 1..Len(moves) : MoveGraceTimer(i)
    \/ \E n \in NodeIds, g \in Guilds, r \in EndReasons : TrackEndEvent(n, g, r)
    \/ \E g \in Guilds : PlayResponse(g)

SpecResume == InitResume /\ [][NextResume]_vars


\* The snapshots the store may hold for guild g from an earlier run: playing A
\* with B pending, the same without a voice channel, playing A with B and A
\* again pending, and connected without a track.
SnapshotsOf(g) ==
    LET valid == [guild |-> g, voiceChannel |-> "vc", textChannel |-> "tc", volume |-> 80,
                  current |-> "A", queue |-> <<"B">>]
    IN  {valid,
         [valid EXCEPT !.voiceChannel = Null],
         [valid EXCEPT !.queue = <<"B", "A">>],
         [valid EXCEPT !.current = Null, !.queue = <<>>]}

\* Session resume over the node's list of remote players: two guilds with a
\* snapshot each in the store, g1 with or without a local player; after
\* Manager.init, both sockets open.
InitList ==
    /\ options \in [autoMove : {TRUE}, autoPlay : {TRUE}, autoResume : {TRUE}, initiated : {TRUE}]
    /\ nodes = NodeIds
    /\ node = [n \in NodeIds |-> [NewNode(Infinity) EXCEPT !.socket = "open"]]
    /\ players \in {{}, PlayingGuilds}
    /\ player = [g \in Guilds |-> IF g \in players
                                  THEN ConfiguredPlayer("n1", FALSE, FALSE, TRUE, 0)
                                  ELSE NewPlayer("n1", 80)]
    /\ \E snaps \in [Guilds -> UNION {SnapshotsOf(g) : g \in Guilds}] :
          /\ \A g \in Guilds : snaps[g] \in SnapshotsOf(g)
          /\ db = [players |-> snaps, sessionId |-> [n \in NodeIds |-> Null]]
    /\ moves = <<>>
    /\ resumes = <<>>
    /\ emitted = <<>>
    /\ lastOp = Op("new", Null, Null, Null, 0)
    /\ budget = [closes |-> 0, connects |-> 0, destroys |-> 0,
                 moveCalls |-> 0, trackEnds |-> 0, readies |-> MaxReadyFrames]

NextList ==
    \/ \E n \in CalledNodes : ReadyFrame(n)
    \/ \E i \in 1..Len(resumes) : ResumePatchResponse(i)
    \/ \E i \in 1..Len(resumes), o \in RestOutcomes, l \in Arrangements(Guilds) : ResumeListResponse(i, o, l)
    \/ \E i \in 1..Len(resumes), o \in RestOutcomes : ResumeDecodeResponse(i, o)
    \/ \E i \in 1..Len(resumes) : ResumeUpdateResponse(i)

SpecList == InitList /\ [][NextList]_vars

\* The player registry: the resume list of two guilds together with user
\* calls of Manager.create and Player.destroy.
InitPlayers ==
    /\ options \in [autoMove : {TRUE}, autoPlay : {TRUE}, autoResume : {TRUE}, initiated : {TRUE}]
    /\ nodes = NodeIds
    /\ node = [n \in NodeIds |-> [NewNode(Infinity) EXCEPT !.socket = "open"]]
    /\ players \in {{}, PlayingGuilds}
    /\ player = [g \in Guilds |-> IF g \in players
                                  THEN ConfiguredPlayer("n1", FALSE, FALSE, TRUE, 0)
                                  ELSE NewPlayer("n1", 80)]
    /\ \E snaps \in [Guilds -> UNION {SnapshotsOf(g) : g \in Guilds}] :
          /\ \A g \in Guilds : snaps[g] \in SnapshotsOf(g)
          /\ db = [players |-> snaps, sessionId |-> [n \in NodeIds |-> Null]]
    /\ moves = <<>>
    /\ resumes = <<>>
    /\ emitted = <<>>
    /\ lastOp = Op("new", Null, Null, Null, 0)
    /\ budget = [closes |-> 0, connects |-> 0, destroys |-> MaxDestroyCalls, moveCalls |-> 0,
                 trackEnds |-> 0, readies |-> MaxReadyFrames, creates |-> MaxCreateCalls]

NextPlayers ==
    \/ \E n \in CalledNodes : ReadyFrame(n)
    \/ \E i \in 1..Len(resumes) : ResumePatchResponse(i)
    \/ \E i \in 1..Len(resumes), o \in RestOutcomes, l \in Arrangements(Guilds) : ResumeListResponse(i, o, l)
    \/ \E i \in 1..Len(resumes), o \in RestOutcomes : ResumeDecodeResponse(i, o)
    \/ \E i \in 1..Len(resumes) : ResumeUpdateResponse(i)
    \/ \E g \in Guilds, n \in NodeIds \cup {Null} : CreateCall(g, n)
    \/ \E g \in Guilds : PlayerDestroyCall(g)

SpecPlayers == InitPlayers /\ [][NextPlayers]_vars

\* HTTP statuses of a failed REST call.
FailureStatuses == {404, 500}

\* REST failures: a playing player on n1 without autoMove, both sockets open
\* after Manager.init; sockets are lost, play() is called and its request
\* succeeds or fails.
InitRest ==
    /\ options \in [autoMove : {FALSE}, autoPlay : {TRUE}, autoResume : BOOLEAN, initiated : {TRUE}]
    /\ nodes = NodeIds
    /\ \E r \in RetryAmounts :
          node = [n \in NodeIds |-> [NewNode(IF n = "n1" THEN r ELSE Infinity) EXCEPT !.socket = "open"]]
    /\ players = PlayingGuilds
    /\ player \in {pl \in InitialPlayers : \A g \in PlayingGuilds : ~pl[g].trackRepeat /\ ~pl[g].queueRepeat}
    /\ db = [players |-> [g \in Guilds |-> NoSnapshot], sessionId |-> [n \in NodeIds |-> Null]]
    /\ moves = <<>>
    /\ resumes = <<>>
    /\ emitted = <<>>
    /\ lastOp = Op("new", Null, Null, Null, 0)
    /\ budget = [closes |-> MaxSocketLosses, connects |-> 0, destroys |-> 0, moveCalls |-> 0,
                 trackEnds |-> 0, readies |-> 0, plays |-> MaxPlayCalls]

NextRest ==
    \/ \E n \in NodeIds : SocketClose(n, 1006, "lost")
    \/ \E n \in NodeIds : SocketOpen(n)
    \/ \E g \in Guilds : PlayCall(g)
    \/ \E g \in Guilds : PlayResponse(g)
    \/ \E g \in Guilds, st \in FailureStatuses : PlayFailure(g, st)

SpecRest == InitRest /\ [][NextRest]_vars



\* The queues a player can have built with Queue.add: a current track and up
\* to MaxQueueLen pending tracks, or nothing at all.
InitialQueues ==
    {<<c, q>> : c \in Tracks, q \in SeqsUpTo(Tracks, MaxQueueLen)} \cup {<<Null, <<>>>>}

\* The queue under TrackEnd events: a connected player on n1 with any initial
\* queue and repeat mode; after Manager.init, both sockets open.
InitQueue ==
    /\ options \in [autoMove : {TRUE}, autoPlay : BOOLEAN, autoResume : {TRUE}, initiated : {TRUE}]
    /\ nodes = NodeIds
    /\ node = [n \in NodeIds |-> [NewNode(Infinity) EXCEPT !.socket = "open"]]
    /\ players = PlayingGuilds
    /\ \E cq \in InitialQueues, rp \in {<<FALSE, FALSE>>, <<TRUE, FALSE>>, <<FALSE, TRUE>>},
          ap \in BOOLEAN :
          player = [g \in Guilds |->
              IF g \notin PlayingGuilds THEN NewPlayer("n1", 80)
              ELSE [ConfiguredPlayer("n1", rp[1], rp[2], TRUE, 0) EXCEPT
                      !.current = cq[1], !.queue = cq[2], !.playing = cq[1] # Null,
                      !.isAutoplay = ap]]
    /\ db = [players |-> [g \in Guilds |-> NoSnapshot], sessionId |-> [n \in NodeIds |-> Null]]
    /\ moves = <<>>
    /\ resumes = <<>>
    /\ emitted = <<>>
    /\ lastOp = Op("new", Null, Null, Null, 0)
    /\ budget = [closes |-> 0, connects |-> 0, destroys |-> 0,
                 moveCalls |-> 0, trackEnds |-> MaxTrackEnds, readies |-> 0]

NextQueue ==
    \/ \E n \in CalledNodes, g \in Guilds, r \in EndReasons : TrackEndEvent(n, g, r)
    \/ \E g \in Guilds : PlayResponse(g)
    \/ \E g \in Guilds, i \in 1..MaxTrackEnds, res \in SearchResults :
          AutoplayQueryResponse(g, i, res)
    \/ \E g \in Guilds, i \in 1..MaxTrackEnds, res \in SearchResults, draw \in Draws :
          AutoplayMixResponse(g, i, res, draw)
    \/ \E g \in Guilds, i \in 1..MaxTrackEnds, res \in SearchResults :
          AutoplayBaseResponse(g, i, res)
    \/ \E g \in Guilds, i \in 1..MaxTrackEnds, res \in SearchResults, draw \in Draws :
          AutoplayBaseMixResponse(g, i, res, draw)

SpecQueue == InitQueue /\ [][NextQueue]_vars

\* Positions, ends and offsets a caller passes, within and outside the queue.
Indexes == (0 - 1)..(MaxQueueLen + 1)
Optional(S) == {<<>>} \cup {<<x>> : x \in S}

\* The queue under calls of its own methods: a connected player on n1 with
\* any initial queue.
InitCalls ==
    /\ options \in [autoMove : {TRUE}, autoPlay : {TRUE}, autoResume : {TRUE}, initiated : {TRUE}]
    /\ nodes = NodeIds
    /\ node = [n \in NodeIds |-> [NewNode(Infinity) EXCEPT !.socket = "open"]]
    /\ players = PlayingGuilds
    /\ \E cq \in InitialQueues :
          player = [g \in Guilds |->
              IF g \notin PlayingGuilds THEN NewPlayer("n1", 80)
              ELSE [ConfiguredPlayer("n1", FALSE, FALSE, TRUE, 0) EXCEPT
                      !.current = cq[1], !.queue = cq[2], !.playing = cq[1] # Null]]
    /\ db = [players |-> [g \in Guilds |-> NoSnapshot], sessionId |-> [n \in NodeIds |-> Null]]
    /\ moves = <<>>
    /\ resumes = <<>>
    /\ emitted = <<>>
    /\ lastOp = Op("new", Null, Null, Null, 0)
    /\ budget = [closes |-> 0, connects |-> 0, destroys |-> 0, moveCalls |-> 0,
                 trackEnds |-> 0, readies |-> 0, queueCalls |-> MaxQueueCalls]

NextCalls ==
    \/ \E g \in Guilds, items \in SeqsUpTo(Tracks, MaxQueueLen), offset \in Optional(Indexes) :
          QueueAddCall(g, items, offset)
    \/ \E g \in Guilds, start \in Indexes, end \in Optional(Indexes) :
          QueueRemoveCall(g, start, end)

SpecCalls == InitCalls /\ [][NextCalls]_vars

\* Arguments of the repeat-mode setters: the booleans and a non-boolean.
RepeatArgs == {"true", "false", "other"}

\* Repeat modes: a connected player on n1 with any initial queue, with or
\* without a previous track, and no repeat mode; the setters and previous()
\* are called, tracks are removed and timers tick.
InitRepeat ==
    /\ options \in [autoMove : {TRUE}, autoPlay : {TRUE}, autoResume : {TRUE}, initiated : {TRUE}]
    /\ nodes = NodeIds
    /\ node = [n \in NodeIds |-> [NewNode(Infinity) EXCEPT !.socket = "open"]]
    /\ players = PlayingGuilds
    /\ \E cq \in InitialQueues, prev \in Entries :
          player = [g \in Guilds |->
              IF g \notin PlayingGuilds THEN NewPlayer("n1", 80)
              ELSE [ConfiguredPlayer("n1", FALSE, FALSE, TRUE, 0) EXCEPT
                      !.current = cq[1], !.queue = cq[2], !.playing = cq[1] # Null,
                      !.previous = prev]]
    /\ db = [players |-> [g \in Guilds |-> NoSnapshot], sessionId |-> [n \in NodeIds |-> Null]]
    /\ moves = <<>>
    /\ resumes = <<>>
    /\ emitted = <<>>
    /\ lastOp = Op("new", Null, Null, Null, 0)
    /\ budget = [closes |-> 0, connects |-> 0, destroys |-> 0, moveCalls |-> 0,
                 trackEnds |-> 0, readies |-> 0, queueCalls |-> MaxQueueCalls,
                 repeatCalls |-> MaxRepeatCalls, ticks |-> MaxShuffleTicks]

NextRepeat ==
    \/ \E g \in Guilds, r \in RepeatArgs : SetTrackRepeatCall(g, r)
    \/ \E g \in Guilds, r \in RepeatArgs : SetQueueRepeatCall(g, r)
    \/ \E g \in Guilds, r \in RepeatArgs : SetDynamicRepeatCall(g, r)
    \/ \E g \in Guilds : \E sh \in Shuffles(player[g].queue) : ShuffleTick(g, sh)
    \/ \E g \in Guilds : QueueRemoveCall(g, 0, <<>>)
    \/ \E g \in Guilds : PreviousCall(g)

SpecRepeat == InitRepeat /\ [][NextRepeat]_vars

\* Node selection: a manager with three nodes after Manager.init, no players;
\* sockets open and close and stats frames arrive.
InitSelect ==
    /\ options \in [autoMove : {TRUE}, autoPlay : {TRUE}, autoResume : {TRUE}, initiated : {TRUE}]
    /\ nodes = SelectorIds
    /\ node = [n \in SelectorIds |-> [NewNode(Infinity) EXCEPT !.socket = "connecting"]]
    /\ players = {}
    /\ player = [g \in Guilds |-> NewPlayer("n1", 80)]
    /\ db = [players |-> [g \in Guilds |-> NoSnapshot], sessionId |-> [n \in SelectorIds |-> Null]]
    /\ moves = <<>>
    /\ resumes = <<>>
    /\ emitted = <<>>
    /\ lastOp = Op("new", Null, Null, Null, 0)
    /\ budget = [closes |-> MaxSocketLosses, connects |-> 0, destroys |-> 0, moveCalls |-> 0,
                 trackEnds |-> 0, readies |-> 0, stats |-> MaxStatsFrames]

NextSelect ==
    \/ \E n \in SelectorIds : SocketOpen(n)
    \/ \E n \in SelectorIds : SocketClose(n, 1006, "lost")
    \/ \E n \in SelectorIds, c \in PlayingCounts, l \in Loads : StatsFrame(n, c, l)

SpecSelect == InitSelect /\ [][NextSelect]_vars


\* ------------------------------------------------- playback and move properties
\* The queue of a player: current, previous and the pending sequence.
QueueOf(pl, g) == <<pl[g].current, pl[g].previous, pl[g].queue>>

\* A move of guild g is in flight, from the call of moveNode until its grace
\* timer has fired.
MoveInFlight(mv, g) == \E i \in 1..Len(mv) : mv[i].guild = g

\* C1: a TrackEnd event handled while the player's state is MOVING or RESUMING
\* leaves current, previous and the pending sequence unchanged, emits neither
\* trackEnd nor queueEnd and does not restart playback, whatever the end reason
\* and the repeat mode.
C1_TrackEndIgnoredInTransition ==
    [][\A g \in Guilds :
        (/\ lastOp'.op = "trackEnd" /\ lastOp'.guild = g
         /\ player[g].state \in {"MOVING", "RESUMING"}) =>
            /\ QueueOf(player', g) = QueueOf(player, g)
            /\ ~Has(emitted', <<"trackEnd", g, Null>>)
            /\ ~Has(emitted', <<"queueEnd", g, Null>>)
            /\ player'[g].pendingPlays = player[g].pendingPlays
            /\ player'[g].autoplays = player[g].autoplays
            /\ player'[g].playing = player[g].playing
      ]_vars

\* C1 witness: a TrackEnd event has been handled for a player that a session
\* resume had put in state RESUMING and whose tracks are still being decoded.
C1_Witness ==
    /\ lastOp.op = "trackEnd"
    /\ lastOp.guild \in players
    /\ player[lastOp.guild].state = "RESUMING"
    /\ \E i \in 1..Len(resumes) : resumes[i].pc = "decode"

\* C2: from the call of moveNode towards another node until its grace timer has
\* fired, no TrackEnd event of the guild changes current, previous or the
\* pending sequence.
C2_NoTrackEndDuringMove ==
    [][\A g \in Guilds :
        (lastOp'.op = "trackEnd" /\ lastOp'.guild = g /\ MoveInFlight(moves, g)) =>
            QueueOf(player', g) = QueueOf(player, g)
      ]_vars

\* C3: the player's state is MOVING at every suspension point of a move: while
\* the position fetch, the state push, the voice push or the destroy-player
\* request of the move is outstanding.
C3_MovingAtEverySuspension ==
    \A i \in 1..Len(moves) :
        moves[i].pc \in {"fetch", "push", "voice", "destroy"} =>
            player[moves[i].guild].state = "MOVING"

\* The order of the steps of one move.
ProtocolOrder ==
    <<"fetch", "fetchDone", "state", "stateDone", "voice", "voiceDone",
      "reassign", "moving", "destroy", "destroyDone", "timer">>

Rank(step) == CHOOSE k \in 1..Len(ProtocolOrder) : ProtocolOrder[k] = step

\* The steps of a log happened in protocol order, and no step before one that
\* the protocol requires to have completed.
InProtocolOrder(log) ==
    /\ \A k \in 1..(Len(log) - 1) : Rank(log[k]) < Rank(log[k + 1])
    /\ Has(log, "voice") => Has(log, "stateDone")
    /\ Has(log, "reassign") => Has(log, "stateDone") /\ Has(log, "voiceDone")
    /\ Has(log, "destroy") => Has(log, "reassign")
    /\ Has(log, "timer") => Has(log, "reassign") /\ Has(log, "moving")

\* No socket loss has started a move of its own, so that the moves, which the
\* user starts one after the other, never overlap.
MovesNeverOverlap == budget.closes = MaxSocketLosses \/ ~options.autoMove

ExpectedPayload(p, position) ==
    [encodedTrack |-> p.current, position |-> position, volume |-> p.volume,
     paused |-> p.paused,
     filters |-> [distortion |-> p.filters.distortion, equalizer |-> p.filters.equalizer,
                  karaoke |-> p.filters.karaoke, rotation |-> p.filters.rotation,
                  timescale |-> p.filters.timescale, vibrato |-> p.filters.vibrato,
                  volume |-> p.filters.volume]]

\* C5: the state push carries the player's current track, volume, paused flag
\* and filter settings as they are when the push is issued; its position is the
\* one the source node reported when the source was connected at the call, and
\* the player's own position otherwise; and the payload of a push that has been
\* issued never changes.
C5_PayloadPreserved ==
    [][/\ \A g \in Guilds :
            (/\ lastOp'.op = "moveNode" /\ lastOp'.guild = g
             /\ Len(moves') = Len(moves) + 1) =>
                LET m == moves'[Len(moves')] IN
                IF node[player[g].node].socket = "open"
                THEN m.pc = "fetch"
                ELSE m.pc = "push" /\ m.payload = ExpectedPayload(player[g], player[g].position)
       /\ \A i \in 1..Len(moves) :
            (/\ lastOp'.op = "moveFetched" /\ lastOp'.arg = "ok"
             /\ moves[i].pc = "fetch" /\ Len(moves') = Len(moves) /\ moves'[i].pc = "push") =>
                moves'[i].payload = ExpectedPayload(player[moves[i].guild], lastOp'.code)
       /\ \A i \in 1..Len(moves) :
            (/\ moves[i].pc \in {"push", "voice", "destroy"}
             /\ Len(moves') = Len(moves) /\ moves'[i].guild = moves[i].guild
             /\ lastOp'.op \in {"movePushed", "moveVoiced", "moveDestroyed"}) =>
                moves'[i].payload = moves[i].payload
      ]_vars

\* C5 witness: the source node has answered the position fetch with a position
\* that differs from the one the player knows, for a paused player with custom
\* filters, and the state push to the destination is outstanding.
C5_Witness ==
    /\ lastOp.op = "moveFetched" /\ lastOp.arg = "ok"
    /\ lastOp.code # player[lastOp.guild].position
    /\ player[lastOp.guild].paused
    /\ player[lastOp.guild].filters = CustomFilters
    /\ \E i \in 1..Len(moves) : moves[i].pc = "push" /\ moves[i].payload.position = lastOp.code

\* ------------------------------------------------- node lifecycle properties
\* Pending reconnect timers of node n.
PendingTimers(nd, n) == (IF nd[n].reconnectTimeout THEN 1 ELSE 0) + nd[n].strayTimers

\* C6: once the retry ceiling of a node with a finite ceiling is reached, exactly
\* one fatal nodeError has been emitted, the node is removed from manager.nodes
\* and no reconnect attempt happens.
C6_CeilingDestroysNode ==
    \A n \in NodeIds :
        (node[n].retryAmount < Infinity /\ node[n].fatalErrors > 0) =>
            /\ node[n].fatalErrors = 1
            /\ n \notin nodes
            /\ ~Has(emitted, <<"nodeReconnect", n, Null>>)

\* C7: a socket open leaves no reconnect timer pending on the handle and the
\* reconnect-attempt counter at its initial value 1.
C7_OpenResetsAttempts ==
    \A n \in NodeIds :
        (lastOp.op \in {"open", "orphanOpen"} /\ lastOp.node = n) =>
            /\ ~node[n].reconnectTimeout
            /\ node[n].reconnectAttempts = 1

\* C8: after Node.destroy() returns, in whatever connection state it was called,
\* no registered player is bound to the node, the socket is dropped and the node
\* is not in manager.nodes.
C8_DestroyComplete ==
    \A n \in NodeIds :
        (lastOp.op = "destroy" /\ lastOp.node = n) =>
            /\ n \notin nodes
            /\ node[n].socket = "none"
            /\ \A g \in players : player[g].node # n

\* C9: after an explicit Node.destroy() no reconnect timer of the node is left
\* pending, no nodeReconnect is emitted and no socket is opened by a timer.
C9_DestroyCancelsReconnect ==
    \A n \in NodeIds :
        node[n].destroyCalled =>
            /\ PendingTimers(node, n) = 0
            /\ ~Has(emitted, <<"nodeReconnect", n, Null>>)

\* C10: a close schedules exactly one reconnect timer unless its code is 1000 and
\* its reason "destroy", in which case it schedules none; a reconnect timer that
\* fires below the ceiling emits nodeReconnect, opens a new socket and increments
\* the attempt counter, and at the ceiling it emits the fatal nodeError and
\* neither reconnects nor counts.
C10_CloseSchedulesReconnect ==
    [][\A n \in NodeIds :
        /\ (lastOp'.op \in {"close", "orphanClose"} /\ lastOp'.node = n) =>
              PendingTimers(node', n) = PendingTimers(node, n)
                  + (IF lastOp'.code = 1000 /\ lastOp'.arg = "destroy" THEN 0 ELSE 1)
        /\ (lastOp'.op = "reconnectTimer" /\ lastOp'.node = n) =>
              IF node[n].reconnectAttempts >= node[n].retryAmount
                 THEN /\ Head(emitted') = <<"nodeError", n, "Unable to connect">>
                      /\ ~Has(emitted', <<"nodeReconnect", n, Null>>)
                      /\ node'[n].socket \in {node[n].socket, "none"}
                      /\ node'[n].orphans = node[n].orphans
                 ELSE /\ PendingTimers(node', n) = PendingTimers(node, n) - 1
                      /\ emitted' = <<<<"nodeReconnect", n, Null>>>>
                      /\ node'[n].socket = "connecting"
                      /\ node'[n].reconnectAttempts = node[n].reconnectAttempts + 1
      ]_vars

\* C10 witness: a reconnect timer armed by a non-normal close has fired and
\* reconnected, so the node is on its second attempt with a new socket.
C10_Witness ==
    /\ lastOp.op = "reconnectTimer"
    /\ node[lastOp.node].reconnectAttempts = 2
    /\ node[lastOp.node].socket = "connecting"

\* Sockets of node n that are connecting or open with the node's handlers
\* attached: the one this.socket refers to and the ones connect() replaced.
LiveSockets(nd, n) == (IF nd[n].socket \in {"connecting", "open"} THEN 1 ELSE 0) + nd[n].orphans

\* C11: a node has at most one live socket (connecting or open, handlers
\* attached) at any time, whatever connect() calls, reconnect timers, closes
\* and destroy() calls happened.
C11_AtMostOneLiveSocket == \A n \in NodeIds : LiveSockets(node, n) <= 1

\* The ready handler of node n is suspended at one of its requests.
ResumeInFlight(rs, n) == \E i \in 1..Len(rs) : rs[i].node = n

\* C12: frames of one socket take effect in arrival order: while the resume
\* procedure that a ready frame of a node started is not complete, no later
\* event frame of that node's socket (here a TrackEndEvent for a player of the
\* node) has any effect on the player or emits anything.
C12_FramesInArrivalOrder ==
    [][\A g \in Guilds :
        (/\ lastOp'.op = "trackEnd" /\ lastOp'.guild = g
         /\ node[player[g].node].socket = "open"
         /\ ResumeInFlight(resumes, player[g].node)) =>
            /\ player'[g] = player[g]
            /\ emitted' = <<>>
      ]_vars

\* ------------------------------------------------------- resume properties
\* A snapshot that lacks guild, voiceChannel or textChannel (an absent one
\* included).
IsStale(snap) == snap.guild = Null \/ snap.voiceChannel = Null \/ snap.textChannel = Null

\* The step is the arrival of the node's list of remote players, and the ready
\* handler has returned in it without a further request.
ListedAndReturned ==
    /\ lastOp'.op = "resumeListed" /\ lastOp'.arg = "ok"
    /\ Len(resumes') < Len(resumes)

\* C13: when the resume procedure has returned, every listed remote player
\* without a local player whose snapshot lacks guild, voiceChannel or
\* textChannel has got no local player and its snapshot is deleted from the
\* store.
C13_StaleSnapshotDropped ==
    [][ListedAndReturned =>
          \A k \in 1..Len(lastOp'.list) :
              LET g == lastOp'.list[k] IN
              (g \notin players /\ IsStale(db.players[g])) =>
                  /\ g \notin players'
                  /\ db'.players[g] = NoSnapshot
      ]_vars

\* C14: when the resume procedure has returned, every listed remote player
\* that was untracked and has a valid snapshot has a local player, whatever
\* entries of the list were skipped.
C14_EntriesIndependent ==
    [][ListedAndReturned =>
          \A k \in 1..Len(lastOp'.list) :
              LET g == lastOp'.list[k] IN
              (g \notin players /\ ~IsStale(db.players[g])) => g \in players'
      ]_vars

\* Requests of resume procedures outstanding for guild g.
ResumeRequestsFor(rs, g) ==
    Len(SelectSeq(rs, LAMBDA r : r.pc \in {"decode", "hung", "update"} /\ Head(r.list).guildId = g))

\* C15: a step of the resume loop creates no player for a guild that already
\* has one, leaves that player (queue, volume, filters, position, state)
\* unchanged and issues no request for it; the snapshot of the guild stays too.
C15_ResumeIdempotent ==
    [][lastOp'.op \in {"resumeListed", "resumeUpdated"} =>
          \A g \in players :
              /\ g \in players'
              /\ player'[g] = player[g]
              /\ ~Has(emitted', <<"playerCreate", g, Null>>)
              /\ ResumeRequestsFor(resumes', g) <= ResumeRequestsFor(resumes, g)
              /\ (lastOp'.list # <<>> /\ Head(lastOp'.list) = g) =>
                    /\ db'.players[g] = db.players[g]
                    /\ Len(resumes') < Len(resumes)
      ]_vars

\* C15 witness: the node's list named g1 first, which has a local player and a
\* valid snapshot in the store; the procedure has returned and the player is
\* as it was.
C15_Witness ==
    /\ lastOp.op = "resumeListed" /\ lastOp.arg = "ok"
    /\ lastOp.list # <<>> /\ Head(lastOp.list) = "g1"
    /\ "g1" \in players
    /\ ~IsStale(db.players["g1"])
    /\ player["g1"].state = "CONNECTED" /\ player["g1"].current = "A"
    /\ resumes = <<>>

\* C16: when the decoded tracks of a snapshot have been put into the player of
\* a guild and its update request is issued, current is the snapshot's current
\* track and the pending sequence is the snapshot's queue, entry for entry.
C16_QueueRestored ==
    [][\A i \in 1..Len(resumes) :
          (/\ lastOp'.op = "resumeDecoded" /\ lastOp'.arg = "ok"
           /\ resumes[i].pc = "decode"
           /\ Head(resumes[i].list).guildId = lastOp'.guild
           /\ ResumeRequestsFor(resumes', lastOp'.guild) = 1) =>
              /\ player'[lastOp'.guild].current = resumes[i].snap.current
              /\ player'[lastOp'.guild].queue = resumes[i].snap.queue
      ]_vars

\* C17: a player that a resume procedure has marked RESUMING is in state
\* RESUMING as long as a request of that procedure for it (decodeTracks or the
\* combined update) is outstanding.
C17_ResumingUntilUpdated ==
    \A i \in 1..Len(resumes) :
        resumes[i].pc \in {"decode", "hung", "update"} =>
            player[Head(resumes[i].list).guildId].state = "RESUMING"

\* --------------------------------------------------------- queue properties
\* The TrackEnd step of guild g with the given reason is not ignored.
TrackEndHandled(g, reason) ==
    /\ lastOp'.op = "trackEnd" /\ lastOp'.guild = g /\ lastOp'.arg = reason
    /\ player[g].state \notin {"MOVING", "RESUMING"}

\* C18: a TrackEnd with reason finished, without repeat mode and with pending
\* tracks, makes the head of the pending sequence current, the old current
\* previous, and keeps the rest in order; from current A and pending [B] it
\* leaves current B, previous A and nothing pending.
C18_FinishedAdvances ==
    [][\A g \in Guilds :
        (/\ TrackEndHandled(g, "finished")
         /\ ~player[g].trackRepeat /\ ~player[g].queueRepeat
         /\ player[g].queue # <<>>) =>
            /\ player'[g].current = Head(player[g].queue)
            /\ player'[g].previous = player[g].current
            /\ player'[g].queue = Tail(player[g].queue)
      ]_vars

\* C18 witness: the player that had current A and pending [B, A] has handled a
\* finished TrackEnd without repeat mode: B is current, A previous, [A] pending.
C18_Witness ==
    /\ lastOp.op = "trackEnd" /\ lastOp.arg = "finished"
    /\ ~player["g1"].trackRepeat /\ ~player["g1"].queueRepeat
    /\ player["g1"].current = "B"
    /\ player["g1"].previous = "A"
    /\ player["g1"].queue = <<"A">>

\* C19: a TrackEnd with reason stopped while track repeat is on, with current A
\* and pending [B], leaves A current (reinserted), makes A previous and leaves
\* [B] pending.
C19_StoppedKeepsRepeatedTrack ==
    [][\A g \in Guilds :
        (/\ TrackEndHandled(g, "stopped")
         /\ player[g].trackRepeat
         /\ player[g].current = "A" /\ player[g].queue = <<"B">>) =>
            /\ player'[g].current = "A"
            /\ player'[g].previous = "A"
            /\ player'[g].queue = <<"B">>
      ]_vars

\* C20: a TrackEnd with reason replaced emits trackEnd and nothing else, sets
\* previous to the current track and leaves current and the pending sequence
\* unchanged, in every repeat mode and with an empty pending sequence too.
C20_ReplacedKeepsQueue ==
    [][\A g \in Guilds :
        TrackEndHandled(g, "replaced") =>
            /\ emitted' = <<<<"trackEnd", g, Null>>>>
            /\ player'[g].previous = player[g].current
            /\ player'[g].current = player[g].current
            /\ player'[g].queue = player[g].queue
      ]_vars

\* C20 witness: a replaced TrackEnd has been handled by a player in track
\* repeat mode with current A and nothing pending: A is previous and current.
C20_Witness ==
    /\ lastOp.op = "trackEnd" /\ lastOp.arg = "replaced"
    /\ player["g1"].trackRepeat
    /\ player["g1"].current = "A"
    /\ player["g1"].previous = "A"
    /\ player["g1"].queue = <<>>
    /\ emitted = <<<<"trackEnd", "g1", Null>>>>

\* C21: a TrackEnd with reason loadFailed or cleanup advances in every repeat
\* mode: previous takes the old current and current the head of the pending
\* sequence. With nothing pending, queue-end handling runs (current cleared)
\* and no trackEnd is emitted; otherwise trackEnd is emitted and a play is
\* started exactly when the autoPlay option is on.
C21_FailedAlwaysAdvances ==
    [][\A g \in Guilds : \A r \in {"loadFailed", "cleanup"} :
        TrackEndHandled(g, r) =>
            /\ player'[g].previous = player[g].current
            /\ IF player[g].queue = <<>>
               THEN /\ player'[g].current = Null
                    /\ player'[g].playing = player[g].isAutoplay
                    /\ ~Has(emitted', <<"trackEnd", g, Null>>)
                    /\ player'[g].pendingPlays = player[g].pendingPlays
               ELSE /\ player'[g].current = Head(player[g].queue)
                    /\ player'[g].queue = Tail(player[g].queue)
                    /\ emitted' = <<<<"trackEnd", g, Null>>>>
                    /\ player'[g].pendingPlays =
                          player[g].pendingPlays + (IF options.autoPlay THEN 1 ELSE 0)
      ]_vars

\* C21 witness: with track repeat on and autoPlay off, a loadFailed TrackEnd
\* has moved the player from current A, pending [B] to current B, previous A,
\* emitted trackEnd and started no play.
C21_Witness ==
    /\ lastOp.op = "trackEnd" /\ lastOp.arg = "loadFailed"
    /\ ~options.autoPlay
    /\ player["g1"].trackRepeat
    /\ player["g1"].current = "B"
    /\ player["g1"].previous = "A"
    /\ player["g1"].queue = <<>>
    /\ player["g1"].pendingPlays = 0
    /\ emitted = <<<<"trackEnd", "g1", Null>>>>

\* The tracks of a player, current and pending, as a bag.
TracksOf(p) ==
    LET all == IF p.current = Null THEN p.queue ELSE <<p.current>> \o p.queue
    IN  [t \in Tracks |-> Count(all, t)]

\* C22: a TrackEnd with reason finished for a playing track under a repeat
\* mode. With track repeat, current and the pending sequence are the same
\* after the event as before. With queue repeat the ended track is appended at
\* the tail and the head of the result becomes current, so the old head
\* becomes current when something was pending. In both modes the bag of
\* current plus pending tracks is preserved.
C22_FinishedUnderRepeat ==
    [][\A g \in Guilds :
        (/\ TrackEndHandled(g, "finished")
         /\ player[g].current # Null
         /\ player[g].trackRepeat \/ player[g].queueRepeat) =>
            /\ TracksOf(player'[g]) = TracksOf(player[g])
            /\ player[g].trackRepeat =>
                  /\ player'[g].current = player[g].current
                  /\ player'[g].queue = player[g].queue
            /\ (~player[g].trackRepeat /\ player[g].queue # <<>>) =>
                  /\ player'[g].current = Head(player[g].queue)
                  /\ player'[g].queue = Append(Tail(player[g].queue), player[g].current)
      ]_vars

\* C22 witness: under queue repeat a finished TrackEnd has turned current A,
\* pending [B, B] into current B, pending [B, A].
C22_Witness ==
    /\ lastOp.op = "trackEnd" /\ lastOp.arg = "finished"
    /\ player["g1"].queueRepeat
    /\ player["g1"].current = "B"
    /\ player["g1"].previous = "A"
    /\ player["g1"].queue = <<"B", "A">>

\* C23: a TrackEnd with reason stopped under queue repeat shifts the queue a
\* second time after the first advance. With exactly one pending entry, that
\* entry is skipped: the ended track is current again, nothing is pending, the
\* bag of current plus pending tracks has lost the skipped entry, and the only
\* play that can start is for the ended track.
C23_StoppedSkipsPending ==
    [][\A g \in Guilds :
        (/\ TrackEndHandled(g, "stopped")
         /\ player[g].queueRepeat /\ ~player[g].trackRepeat
         /\ player[g].current # Null
         /\ Len(player[g].queue) = 1) =>
            LET skipped == Head(player[g].queue) IN
            /\ player'[g].current = player[g].current
            /\ player'[g].previous = player[g].current
            /\ player'[g].queue = <<>>
            /\ TracksOf(player'[g])[skipped] = TracksOf(player[g])[skipped] - 1
            /\ ~Has(emitted', <<"queueEnd", g, Null>>)
      ]_vars

\* C23 witness: the player saved with current A and pending [B] has handled a
\* stopped TrackEnd under queue repeat; A is current, nothing is pending and B
\* is gone.
C23_Witness ==
    /\ lastOp.op = "trackEnd" /\ lastOp.arg = "stopped"
    /\ player["g1"].queueRepeat
    /\ db.players["g1"].current = "A"
    /\ db.players["g1"].queue = <<"B">>
    /\ player["g1"].current = "A"
    /\ player["g1"].queue = <<>>

\* The queueEnd events of guild g among the events of the last handler.
QueueEndEvents(ev, g) == SelectSeq(ev, LAMBDA e : e[1] = "queueEnd" /\ e[2] = g)

\* C24: a TrackEnd that leaves a player without autoplay with no current
\* track (other than a replaced one) has run queue-end handling: playing is
\* false and queueEnd was emitted exactly once; no handler emits queueEnd
\* more than once, and every queueEnd is emitted with current already null.
C24_QueueEndClearsCurrent ==
    [][\A g \in Guilds : \A r \in EndReasons :
        (TrackEndHandled(g, r) /\ ~player[g].isAutoplay) =>
            /\ Len(QueueEndEvents(emitted', g)) <= 1
            /\ \A k \in 1..Len(QueueEndEvents(emitted', g)) :
                  QueueEndEvents(emitted', g)[k][3] = Null
            /\ QueueEndEvents(emitted', g) # <<>> =>
                  player'[g].current = Null /\ ~player'[g].playing
            /\ (player'[g].current = Null /\ r # "replaced") =>
                  Len(QueueEndEvents(emitted', g)) = 1
      ]_vars

\* C24 witness: a player without autoplay, saved with current A and nothing
\* pending, has handled a finished TrackEnd: queueEnd was emitted once, with
\* current null, and the player is not playing.
C24_Witness ==
    /\ lastOp.op = "trackEnd" /\ lastOp.arg = "finished"
    /\ ~player["g1"].isAutoplay
    /\ db.players["g1"].current = "A"
    /\ player["g1"].current = Null
    /\ ~player["g1"].playing
    /\ emitted = <<<<"queueEnd", "g1", Null>>>>

\* The step is the response to the last search of an autoplay continuation of
\* guild g in which the mix search and the default-seed fallback gave an
\* empty or error result.
EveryFallbackFailed(g) ==
    /\ lastOp'.op \in {"autoplayBase", "autoplayBaseMix"}
    /\ lastOp'.guild = g
    /\ lastOp'.arg \in {"empty", "error"}

\* C25: when every mix search and the default-seed fallback return an empty
\* or error result, the autoplay continuation ends silently: no error escapes
\* the handler, nothing is enqueued and the queue stays ended (current null,
\* pending sequence unchanged).
C25_AutoplayFailsSilently ==
    [][\A g \in Guilds :
        EveryFallbackFailed(g) =>
            /\ player'[g].autoplayErrors = player[g].autoplayErrors
            /\ player'[g].current = Null
            /\ player'[g].queue = player[g].queue
            /\ player'[g].pendingPlays = player[g].pendingPlays
      ]_vars

\* The step hands a mix playlist to the only autoplay continuation of guild g,
\* and the playlist has a track other than the ended one.
MixWithCandidates(g) ==
    /\ lastOp'.op \in {"autoplayMix", "autoplayBaseMix"}
    /\ lastOp'.guild = g
    /\ lastOp'.arg = "playlist"
    /\ Len(player[g].autoplays) = 1
    /\ player[g].autoplays[1].track # Null
    /\ Without(lastOp'.list, player[g].autoplays[1].track) # <<>>

\* C26: on queue-end with autoplay, given a mix playlist with at least one
\* track other than the ended one, the track enqueued is one of those tracks
\* for every value of the random draw: the chosen index lies within the
\* filtered candidates, so no error is raised and the new current track is a
\* candidate.
C26_MixPickWithinCandidates ==
    [][\A g \in Guilds :
        MixWithCandidates(g) =>
            /\ player'[g].autoplayErrors = player[g].autoplayErrors
            /\ Has(Without(lastOp'.list, player[g].autoplays[1].track), player'[g].current)
      ]_vars

Range(seq) == {seq[k] : k \in 1..Len(seq)}

\* C30: leastUsedNodes holds exactly the connected nodes, each once, in
\* ascending order of their playing-player count (three connected nodes with
\* counts 5, 1, 3 come in the order 1, 3, 5); no node that is not connected is
\* in leastUsedNodes or in leastLoadNodes.
C30_LeastUsedSorted ==
    LET used == LeastUsedNodes(World)
        connected == {n \in nodes : node[n].socket = "open"}
    IN  /\ Range(used) = connected
        /\ Len(used) = Cardinality(connected)
        /\ \A j, k \in 1..Len(used) :
              j < k => node[used[j]].playingPlayers <= node[used[k]].playingPlayers
        /\ Range(LeastLoadNodes(World)) \subseteq connected
        /\ (/\ connected = SelectorIds
            /\ node["n1"].playingPlayers = 5
            /\ node["n2"].playingPlayers = 1
            /\ node["n3"].playingPlayers = 3) => used = <<"n2", "n3", "n1">>

\* C30 witness: n1 reported 5 playing players and lost its socket; n2 and n3
\* are connected with 3 and 1, and leastUsedNodes is n3, n2.
C30_Witness ==
    /\ node["n1"].socket = "closed" /\ node["n1"].playingPlayers = 5
    /\ node["n2"].socket = "open" /\ node["n2"].playingPlayers = 3
    /\ node["n3"].socket = "open" /\ node["n3"].playingPlayers = 1
    /\ LeastUsedNodes(World) = <<"n3", "n2">>

\* ------------------------------------------------------ registry properties
\* The playerCreate events of guild g among the events of the last handler.
PlayerCreateEvents(ev, g) == SelectSeq(ev, LAMBDA e : e[1] = "playerCreate" /\ e[2] = g)

\* C31: there is one player per guild. Manager.create for a guild that has a
\* player leaves that player and the registry as they are and emits no
\* playerCreate; and whatever step runs (create, destroy, resume), a
\* playerCreate is emitted at most once, only for a guild that had no player
\* and has one afterwards.
C31_OnePlayerPerGuild ==
    [][\A g \in Guilds :
        /\ (lastOp'.op = "create" /\ lastOp'.guild = g /\ g \in players) =>
              /\ players' = players
              /\ player'[g] = player[g]
              /\ emitted' = <<>>
        /\ PlayerCreateEvents(emitted', g) # <<>> =>
              /\ Len(PlayerCreateEvents(emitted', g)) = 1
              /\ g \notin players
              /\ g \in players'
      ]_vars

\* C31 witness: create was called for g1 while g1 had a playing player: the
\* player still plays A with [B] pending and nothing was emitted.
C31_Witness ==
    /\ lastOp.op = "create" /\ lastOp.guild = "g1"
    /\ "g1" \in players
    /\ player["g1"].state = "CONNECTED"
    /\ player["g1"].current = "A"
    /\ player["g1"].queue = <<"B">>
    /\ emitted = <<>>

\* ------------------------------------------------------- REST properties
\* C32: when a REST call on a node's session gets a 404 the node is destroyed
\* locally (its players destroyed, nodeDestroy emitted) and a replacement
\* with the same configuration is created, registered and connecting; any
\* other REST failure leaves the node set, the nodes' sockets and the player
\* registry as they were.
C32_NotFoundReplacesNode ==
    [][\A g \in Guilds :
        (lastOp'.op = "playFailed" /\ lastOp'.guild = g) =>
            LET n == lastOp'.node IN
            IF lastOp'.code = 404
            THEN /\ \A h \in players : player[h].node = n => h \notin players'
                 /\ Has(emitted', <<"nodeDestroy", n, Null>>)
                 /\ Has(emitted', <<"nodeCreate", n, Null>>)
                 /\ n \in nodes'
                 /\ node'[n] = [NewNode(node[n].retryAmount) EXCEPT !.socket = "connecting"]
            ELSE /\ nodes' = nodes
                 /\ node' = node
                 /\ players' = players
      ]_vars

\* ------------------------------------------------- repeat mode properties
\* C33: whenever dynamic repeat becomes disabled, by setDynamicRepeat(false)
\* or by switching to track or queue repeat, no shuffle timer of the player
\* is left; a tick while dynamic repeat is off does not reorder the queue;
\* and a player never has more than one shuffle timer.
C33_ShuffleTimerCancelled ==
    [][\A g \in Guilds :
        /\ (player[g].dynamicRepeat /\ ~player'[g].dynamicRepeat) =>
              player'[g].shuffleTimers = 0
        /\ (lastOp'.op = "shuffleTick" /\ lastOp'.guild = g /\ ~player[g].dynamicRepeat) =>
              player'[g].queue = player[g].queue /\ player'[g].current = player[g].current
        /\ player'[g].shuffleTimers <= 1
      ]_vars

\* C40: at most one of trackRepeat, queueRepeat and dynamicRepeat is true.
C40_OneRepeatMode ==
    \A g \in Guilds :
        /\ ~(player[g].trackRepeat /\ player[g].queueRepeat)
        /\ ~(player[g].trackRepeat /\ player[g].dynamicRepeat)
        /\ ~(player[g].queueRepeat /\ player[g].dynamicRepeat)

\* C40 witness: dynamic repeat was on and setTrackRepeat(true) was called:
\* track repeat is the only mode set.
C40_Witness ==
    /\ lastOp.op = "setTrackRepeat" /\ lastOp.arg = "true"
    /\ player["g1"].shuffleTimers > 0
    /\ player["g1"].trackRepeat
    /\ ~player["g1"].queueRepeat
    /\ ~player["g1"].dynamicRepeat

\* ------------------------------------------------- transitional states
\* A move of guild g has marked the player MOVING and its grace timer has not
\* fired yet.
MovingWindowOpen(mv, g) ==
    \E j \in 1..Len(mv) : mv[j].guild = g /\ mv[j].pc \in {"destroy", "grace"}

\* C34: the grace timer of a move only takes the player from MOVING to
\* CONNECTED: it leaves any other state as it is, and it leaves the state
\* MOVING while a later move of the same player is still inside its own
\* MOVING window.
C34_GraceTimerOnlyEndsOwnMove ==
    [][\A g \in Guilds :
        (lastOp'.op = "moveGrace" /\ lastOp'.guild = g) =>
            /\ player[g].state # "MOVING" => player'[g].state = player[g].state
            /\ MovingWindowOpen(moves', g) => player'[g].state = "MOVING"
      ]_vars

\* The ready handler of some node is waiting for the decode of guild g's tracks.
DecodeOutstanding(rs, g) ==
    \E i \in 1..Len(rs) : rs[i].pc = "decode" /\ Head(rs[i].list).guildId = g

\* C35: no registered player is left in a transitional state with nothing
\* outstanding that would end it: a player in state RESUMING has its decode
\* outstanding, a player in state MOVING has a grace timer pending or about
\* to be set.
C35_TransitionalStateEnds ==
    \A g \in players :
        /\ player[g].state = "RESUMING" => DecodeOutstanding(resumes, g)
        /\ player[g].state = "MOVING" => MovingWindowOpen(moves, g)

\* ------------------------------------------------- registry invariants
\* C36: every player registered in the manager references a node that is
\* registered in the manager's node set.
C36_PlayersReferenceRegisteredNodes ==
    \A g \in players : player[g].node \in nodes

\* C37: a registered player with playing set has a current track.
C37_PlayingHasCurrent ==
    \A g \in players : player[g].playing => player[g].current # Null

\* C38: the pending sequence of every player holds tracks only.
C38_PendingHoldsTracks ==
    \A g \in players : \A k \in 1..Len(player[g].queue) : player[g].queue[k] \in Tracks

\* ------------------------------------------------------ failover
\* A move that was started for a player whose node was not connected: it
\* begins with the state push, without a position fetch.
MovesOffClosedNode(m) == m.log[1] = "state"

\* C39: when a node's socket closes, with autoMove disabled every player
\* bound to it keeps its node and only has playing set to false; with autoMove
\* enabled and another connected node available a move of every such player
\* to a connected node other than the closed one is started, and until that
\* move has reassigned the player no step changes the player's queue or
\* drops the move.
C39_CloseMovesOrPauses ==
    [][/\ \A n \in NodeIds, g \in players :
            (lastOp'.op = "close" /\ lastOp'.node = n /\ player[g].node = n) =>
                IF ~options.autoMove
                THEN player'[g] = [player[g] EXCEPT !.playing = FALSE]
                ELSE (\E o \in nodes \ {n} : node'[o].socket = "open") =>
                        \E i \in 1..Len(moves') :
                            /\ moves'[i].guild = g
                            /\ moves'[i].currentNode = n
                            /\ moves'[i].destinationNode \in nodes \ {n}
                            /\ node'[moves'[i].destinationNode].socket = "open"
                            /\ MovesOffClosedNode(moves'[i])
       /\ \A i \in 1..Len(moves) :
            (MovesOffClosedNode(moves[i]) /\ moves[i].pc \in {"push", "voice"}) =>
                /\ QueueOf(player', moves[i].guild) = QueueOf(player, moves[i].guild)
                /\ \/ player'[moves[i].guild].node = moves[i].destinationNode
                   \/ \E j \in 1..Len(moves') :
                         /\ moves'[j].guild = moves[i].guild
                         /\ moves'[j].destinationNode = moves[i].destinationNode
                         /\ MovesOffClosedNode(moves'[j])
      ]_vars

====
